---- MODULE Spec2Model ----
(***************************************************************************)
(* A model of the continuous audio streaming core of navidrome-radio:      *)
(*   - AudioPipeline    (backend/src/services/audio_pipeline.rs)           *)
(*   - AudioBroadcaster (backend/src/services/audio_broadcaster.rs)        *)
(*   - the embedding-indexing control state (backend/src/api/library.rs)   *)
(* Every action is one step between two synchronisation points of the      *)
(* code (a lock acquisition, a channel operation, an atomic access).       *)
(***************************************************************************)
EXTENDS Integers, Sequences, FiniteSets, TLC

(***************************************************************************)
(* Bounds and scaled configuration values.                                 *)
(***************************************************************************)
\* AudioPipelineConfig.sample_rate, scaled down from 44100
SampleRate == 1
\* AudioPipelineConfig.buffer_seconds, scaled down from 10.0
BufferSeconds == 1
\* a decoded track holds 0..MaxFrames stereo frames
MaxFrames == 2
\* number of queue_track calls in one run
MaxQueued == 3
\* length of the caller's output slice given to read_samples (8192 in the
\* broadcast loop), scaled down
ReadBufLen == 3
\* number of skip calls in one run
MaxSkips == 1

\* OUTPUT_CHANNELS
OUTPUT_CHANNELS == 2
\* capacity of the control channel, mpsc::channel(32)
CONTROL_CAPACITY == 32

Min(a, b) == IF a < b THEN a ELSE b

(***************************************************************************)
(* State.                                                                  *)
(***************************************************************************)
VARIABLES
  \* ---- AudioPipeline ----
  control_tx,     \* BOOLEAN: control_tx is Some (start() has run)
  control_rx,     \* commands in flight in the control channel, oldest first
  running,        \* PipelineState.running
  state_track,    \* PipelineState.current_track (track id, position in samples)
  track_queue,    \* PipelineState.track_queue
  samples,        \* AudioBuffer.samples
  current_track,  \* AudioBuffer.current_track
  events,         \* every event sent on event_tx, oldest first
  ppc,            \* position of the producer task
  p_track,        \* producer local: the track being loaded
  p_samples,      \* producer local: the decoded samples of p_track
  \* ---- callers of the pipeline API ----
  qpc,            \* a queue_track caller: "idle" or "sending"
  n_queued,       \* number of queue_track calls made
  n_skips,        \* number of Pipeline::skip calls made
  spc,            \* the stop() caller: "idle", "sent", "done"
  \* ---- AudioBroadcaster ----
  b_running,      \* AudioBroadcaster.running
  encoder_tx,     \* BOOLEAN: encoder_tx is Some (the encoder thread was spawned)
  clear_buffers,  \* AudioBroadcaster.clear_buffers
  segments,       \* BroadcasterState.segments
  sequence,       \* BroadcasterState.sequence
  media_sequence, \* BroadcasterState.media_sequence
  discontinuity,  \* BroadcasterState.discontinuity
  current_track_id, \* BroadcasterState.current_track_id
  lpc,            \* position of the broadcast loop task
  sample_buffer,  \* broadcast loop local: staged PCM samples
  ev_pos,         \* number of pipeline events before the loop's receiver cursor
  l_mp3,          \* broadcast loop local: the encoder's reply
  enc_rx,         \* messages in flight to the encoder thread, oldest first
  mp3_rx,         \* replies in flight from the encoder thread, oldest first
  epc,            \* position of the encoder thread
  encoder,        \* the encoder thread's encoder: its instance and its use
  n_fail,         \* number of encode calls that failed
  kpc,            \* position of the AudioBroadcaster::skip caller
  \* ---- history ----
  out,            \* every sample returned by read_samples, in order
  loaded,         \* <<track id, length>> of every track whose samples were
                  \* appended to the buffer, in order
  n_resets,       \* number of Reset messages skip() sent to the encoder thread
  clear_reset,    \* n_resets when skip() last cleared the window
  disc_due,       \* skip() cleared the window and no get_playlist call since
                  \* has listed a segment
  \* ---- embedding indexing ----
  embedding_control, \* AppState.embedding_control
  workers,        \* the indexing tasks index_embeddings_stream spawned
  start_seen,     \* index_embeddings_stream local: the control state its
                  \* "already running" check read ("none": no call in progress)
  last,           \* the last command handled, the state it found, its reply
                  \* and whether it set the control state
  \* ---- the broadcasters of one station (api/stations.rs) ----
  station_broadcasters, \* AppState.station_broadcasters[station]: a pair, or 0
  pairs,          \* the (AudioPipeline, AudioBroadcaster) pairs created so far
  requests,       \* the get_hls_playlist requests: position and local pair
  \* ---- hybrid curation (services/hybrid_curator.rs) ----
  progress,       \* the progress channel: the events sent and not yet received
  progress_rx,    \* its receiver: "none", "live" (a task receives), "held"
                  \* (bound to _rx and never read) or "dropped"
  progress_cap,   \* the capacity the channel was created with
  cpc,            \* position of the curate_with_progress call
  c_limit,        \* its argument limit
  use_hybrid,     \* its local use_hybrid
  c_seeds,        \* its local seeds (fallback_curation's seeds on that path)
  c_missing,      \* fill_gaps_between_seeds: number of seeds_needing_embeddings
  c_i,            \* generate_missing_embeddings: index of the loop
  playlist,       \* the playlist built, returned when cpc is "done"
  \* ---- the seed selector's call of the language model ----
  content_text,   \* call_claude: the text of the response, as tokens
  json_text,      \* call_claude: what extract_first_json_object returned
  \* ---- the segment duration of a broadcaster ----
  broadcaster_config,      \* AudioBroadcasterConfig.segment_duration, with
                           \* the sample rate and the MP3 frame size
  actual_segment_duration, \* start(): <<samples, samples per second>>
  playlist_header,         \* get_playlist(): the values of the
                           \* #EXT-X-TARGETDURATION and #EXTINF lines
  \* ---- real time ----
  elapsed,        \* broadcast_start.elapsed(), in ticks
  \* ---- AudioEncoder and its database ----
  library_index,      \* library_index.genres of every track
  track_embeddings,   \* track_embeddings: track_id -> embedding
  embedding_failures, \* embedding_failures: track_id -> attempt_count,
                      \* 0 when there is no row
  ae_last,            \* the last call of the encoder and what it returned
  \* ---- AudioBroadcaster::skip ----
  skip_result,        \* what the last skip() returned: "Ok", "Err", or
                      \* "none" before any has
  clear_out,          \* Len(out) when skip() last cleared the window
  \* ---- the broadcast loop tasks of one broadcaster ----
  loop_tasks,         \* every broadcast loop task start() can spawn: its
                      \* position and why it left the loop
  \* ---- StationManager: one active station ----
  active_station,     \* active_stations[station]: current_track, started_at,
                      \* and the number of tracks it has been given
  playlist_history,   \* the rows of playlist_history, oldest first, each
                      \* with the turn of the track whose end caused it
  np_calls,           \* the get_now_playing calls: position and locals
  utc_now             \* Utc::now(), in seconds

pvars == <<control_tx, control_rx, running, state_track, track_queue, samples,
           current_track, events, ppc, p_track, p_samples>>
cvars == <<qpc, n_queued, n_skips, spc>>
bvars == <<b_running, encoder_tx, clear_buffers, segments, sequence,
           media_sequence, discontinuity, current_track_id, lpc, sample_buffer,
           ev_pos, l_mp3, enc_rx, mp3_rx, epc, encoder, n_fail, kpc>>
hvars == <<out, loaded, n_resets, clear_reset, disc_due>>
ecvars == <<embedding_control, workers, start_seen, last>>
gbvars == <<station_broadcasters, pairs, requests>>
hcvars == <<progress, progress_rx, progress_cap, cpc, c_limit, use_hybrid,
            c_seeds, c_missing, c_i, playlist>>
jxvars == <<content_text, json_text>>
sdvars == <<broadcaster_config, actual_segment_duration, playlist_header>>
rtvars == <<elapsed>>
aevars == <<library_index, track_embeddings, embedding_failures, ae_last>>
kvars == <<skip_result>>
xvars == <<clear_out>>
ltvars == <<loop_tasks>>
npvars == <<active_station, playlist_history, np_calls, utc_now>>
vars == <<pvars, cvars, bvars, hvars, ecvars, gbvars, hcvars, jxvars, sdvars,
         rtvars, aevars, kvars, xvars, ltvars, npvars>>

(***************************************************************************)
(* AudioPipeline                                                           *)
(***************************************************************************)
\* Option<BufferedTrack>::None
NoTrack == [track_id |-> 0, total_samples |-> 0, consumed_samples |-> 0]
\* Option<TrackState>::None
NoState == [track_id |-> 0, position |-> 0]

\* a slot that counts total_samples per channel
BufferedTrackPerChannel(id, total) ==
  [track_id |-> id, total_samples |-> total \div OUTPUT_CHANNELS,
   consumed_samples |-> 0]

BufferedTrack(id, total) ==
  [track_id |-> id, total_samples |-> total, consumed_samples |-> 0]

Event(type, id) == [type |-> type, track_id |-> id]
Command(cmd, id) == [cmd |-> cmd, track_id |-> id]

\* AudioPipeline::new: max_samples = buffer_seconds * sample_rate * channels
max_samples == BufferSeconds * SampleRate * OUTPUT_CHANNELS

\* the result of fetch_and_decode for a track of n samples: sample i of
\* track id is the pair <<id, i>>
Decoded(id, n) == [i \in 1..n |-> <<id, i>>]

\* the lengths fetch_and_decode can return (whole stereo frames)
TrackLens == {f * OUTPUT_CHANNELS : f \in 0..MaxFrames}
\* ... when every track is MaxFrames long
FullLens == {MaxFrames * OUTPUT_CHANNELS}

\* the receiving half of the control channel is dropped when the producer
\* task leaves its loop
RxClosed == ppc = "done"

InitPipeline ==
  /\ control_tx = FALSE
  /\ control_rx = <<>>
  /\ running = FALSE
  /\ state_track = NoState
  /\ track_queue = <<>>
  /\ samples = <<>>
  /\ current_track = NoTrack
  /\ events = <<>>
  /\ ppc = "unstarted"
  /\ p_track = 0
  /\ p_samples = <<>>

InitCallers ==
  /\ qpc = "idle"
  /\ n_queued = 0
  /\ n_skips = 0
  /\ spc = "idle"

InitHistory ==
  /\ out = <<>>
  /\ loaded = <<>>
  /\ n_resets = 0
  /\ clear_reset = 0
  /\ disc_due = FALSE
  /\ clear_out = 0

\* start(): create the control channel, set running, spawn the producer
Start ==
  /\ ~control_tx
  /\ control_tx' = TRUE
  /\ running' = TRUE
  /\ ppc' = "recv"
  /\ UNCHANGED <<npvars, ltvars, xvars, kvars, aevars, rtvars, sdvars, jxvars, hcvars, gbvars, ecvars, control_rx, state_track, track_queue, samples, current_track,
                 events, p_track, p_samples, cvars, bvars, hvars>>

\* queue_track(): the call is made with the next track id; max calls are
\* made in one run
QueueTrackCall(max) ==
  /\ qpc = "idle"
  /\ n_queued < max
  /\ n_queued' = n_queued + 1
  /\ qpc' = "sending"
  /\ UNCHANGED <<npvars, ltvars, xvars, kvars, aevars, rtvars, sdvars, jxvars, hcvars, gbvars, ecvars, pvars, n_skips, spc, bvars, hvars>>

\* queue_track(): pipeline not started, push to the queue directly
QueueTrackDirect ==
  /\ qpc = "sending"
  /\ ~control_tx
  /\ track_queue' = Append(track_queue, n_queued)
  /\ qpc' = "idle"
  /\ UNCHANGED <<npvars, ltvars, xvars, kvars, aevars, rtvars, sdvars, jxvars, hcvars, gbvars, ecvars, control_tx, control_rx, running, state_track, samples,
                 current_track, events, ppc, p_track, p_samples,
                 n_queued, n_skips, spc, bvars, hvars>>

\* queue_track(): tx.send(QueueTrack(track)).await completes when the
\* channel has room
QueueTrackSend ==
  /\ qpc = "sending"
  /\ control_tx
  /\ ~RxClosed
  /\ Len(control_rx) < CONTROL_CAPACITY
  /\ control_rx' = Append(control_rx, Command("QueueTrack", n_queued))
  /\ qpc' = "idle"
  /\ UNCHANGED <<npvars, ltvars, xvars, kvars, aevars, rtvars, sdvars, jxvars, hcvars, gbvars, ecvars, control_tx, running, state_track, track_queue, samples,
                 current_track, events, ppc, p_track, p_samples,
                 n_queued, n_skips, spc, bvars, hvars>>

\* queue_track(): the send fails because the receiver is gone
QueueTrackFail ==
  /\ qpc = "sending"
  /\ control_tx
  /\ RxClosed
  /\ qpc' = "idle"
  /\ UNCHANGED <<npvars, ltvars, xvars, kvars, aevars, rtvars, sdvars, jxvars, hcvars, gbvars, ecvars, pvars, n_queued, n_skips, spc, bvars, hvars>>

(***************************************************************************)
(* The producer task spawned by start().                                   *)
(***************************************************************************)
\* try_recv() finds the channel empty
P_RecvEmpty ==
  /\ ppc = "recv"
  /\ control_rx = <<>>
  /\ ppc' = "needs"
  /\ UNCHANGED <<npvars, ltvars, xvars, kvars, aevars, rtvars, sdvars, jxvars, hcvars, gbvars, ecvars, control_tx, control_rx, running, state_track, track_queue,
                 samples, current_track, events, p_track, p_samples, cvars, bvars, hvars>>

\* Ok(PipelineCommand::QueueTrack(track)): push to the queue
P_RecvQueueTrack ==
  /\ ppc = "recv"
  /\ control_rx # <<>>
  /\ Head(control_rx).cmd = "QueueTrack"
  /\ control_rx' = Tail(control_rx)
  /\ track_queue' = Append(track_queue, Head(control_rx).track_id)
  /\ ppc' = "needs"
  /\ UNCHANGED <<npvars, ltvars, xvars, kvars, aevars, rtvars, sdvars, jxvars, hcvars, gbvars, ecvars, control_tx, running, state_track, samples, current_track,
                 events, p_track, p_samples, cvars, bvars, hvars>>

\* the events the Skip handler sends
SkipEvents(ev, cur) == ev

\* Ok(PipelineCommand::Skip): clear the buffer and the current-track slot
P_RecvSkip ==
  /\ ppc = "recv"
  /\ control_rx # <<>>
  /\ Head(control_rx).cmd = "Skip"
  /\ control_rx' = Tail(control_rx)
  /\ samples' = <<>>
  /\ current_track' = NoTrack
  /\ events' = SkipEvents(events, current_track)
  /\ ppc' = "needs"
  /\ UNCHANGED <<npvars, ltvars, xvars, kvars, aevars, rtvars, sdvars, jxvars, hcvars, gbvars, ecvars, control_tx, running, state_track, track_queue,
                 p_track, p_samples, cvars, bvars, hvars>>

\* Ok(PipelineCommand::Stop): clear running, send Stopped, leave the loop
P_RecvStop ==
  /\ ppc = "recv"
  /\ control_rx # <<>>
  /\ Head(control_rx).cmd = "Stop"
  /\ control_rx' = Tail(control_rx)
  /\ running' = FALSE
  /\ events' = Append(events, Event("Stopped", 0))
  /\ ppc' = "done"
  /\ UNCHANGED <<npvars, ltvars, xvars, kvars, aevars, rtvars, sdvars, jxvars, hcvars, gbvars, ecvars, control_tx, state_track, track_queue, samples, current_track,
                 p_track, p_samples, cvars, bvars, hvars>>

\* needs_audio = buf.samples.len() < buf.max_samples / 2
needs_audio == Len(samples) < max_samples \div 2

\* a next_track that waits for a current track instead of for none
HasNextTrackInverted == current_track # NoTrack /\ track_queue # <<>>

\* next_track: the front of the queue if no track is current
HasNextTrack == current_track = NoTrack /\ track_queue # <<>>

\* needs_audio and (next_track, queue_len) are read; with nothing to load
\* the loop sleeps and starts over. needs_audio can only turn from false to
\* true between the two reads, so they are taken in one step.
P_Check ==
  /\ ppc = "needs"
  /\ IF needs_audio /\ HasNextTrack
       THEN p_track' = Head(track_queue) /\ ppc' = "pop"
       ELSE p_track' = p_track /\ ppc' = "recv"
  /\ UNCHANGED <<npvars, ltvars, xvars, kvars, aevars, rtvars, sdvars, jxvars, hcvars, gbvars, ecvars, control_tx, control_rx, running, state_track, track_queue,
                 samples, current_track, events, p_samples, cvars, bvars, hvars>>

\* s.track_queue.pop_front()
P_Pop ==
  /\ ppc = "pop"
  /\ track_queue' = IF track_queue = <<>> THEN <<>> ELSE Tail(track_queue)
  /\ ppc' = "fetch"
  /\ UNCHANGED <<npvars, ltvars, xvars, kvars, aevars, rtvars, sdvars, jxvars, hcvars, gbvars, ecvars, control_tx, control_rx, running, state_track, samples,
                 current_track, events, p_track, p_samples, cvars, bvars, hvars>>

\* fetch_and_decode returns Ok(samples), of a length in lens
P_FetchOk(lens) ==
  /\ ppc = "fetch"
  /\ \E n \in lens : p_samples' = Decoded(p_track, n)
  /\ ppc' = "store"
  /\ UNCHANGED <<npvars, ltvars, xvars, kvars, aevars, rtvars, sdvars, jxvars, hcvars, gbvars, ecvars, control_tx, control_rx, running, state_track, track_queue,
                 samples, current_track, events, p_track, cvars, bvars, hvars>>

\* a failed load that sends no event
P_FetchErrSilent ==
  /\ ppc = "fetch"
  /\ ppc' = "recv"
  /\ p_track' = 0
  /\ UNCHANGED <<npvars, ltvars, xvars, kvars, aevars, rtvars, sdvars, jxvars, hcvars, gbvars, ecvars, control_tx, control_rx,
                 running, state_track, track_queue, samples, current_track,
                 events, p_samples, cvars, bvars, hvars>>

\* fetch_and_decode returns Err: send Error, go on with the loop
P_FetchErr ==
  /\ ppc = "fetch"
  /\ events' = Append(events, Event("Error", p_track))
  /\ ppc' = "recv"
  /\ p_track' = 0
  /\ UNCHANGED <<npvars, ltvars, xvars, kvars, aevars, rtvars, sdvars, jxvars, hcvars, gbvars, ecvars, control_tx, control_rx, running, state_track, track_queue,
                 samples, current_track, p_samples, cvars, bvars, hvars>>

\* buf.samples.extend(samples.iter())
Extended(buf, new) == buf \o new

\* under the buffer's write lock: append the samples, set current_track
P_Store ==
  /\ ppc = "store"
  /\ samples' = Extended(samples, p_samples)
  /\ current_track' = BufferedTrack(p_track, Len(p_samples))
  /\ loaded' = Append(loaded, <<p_track, Len(p_samples)>>)
  /\ ppc' = "state"
  /\ UNCHANGED <<npvars, ltvars, xvars, kvars, aevars, rtvars, sdvars, jxvars, hcvars, gbvars, ecvars, control_tx, control_rx, running, state_track, track_queue,
                 events, p_track, p_samples, cvars, bvars, out, n_resets, clear_reset, disc_due>>

\* under the state's write lock: s.current_track = Some(track_state)
P_State ==
  /\ ppc = "state"
  /\ state_track' = [track_id |-> p_track, position |-> 0]
  /\ ppc' = "emit"
  /\ UNCHANGED <<npvars, ltvars, xvars, kvars, aevars, rtvars, sdvars, jxvars, hcvars, gbvars, ecvars, control_tx, control_rx, running, track_queue, samples,
                 current_track, events, p_track, p_samples, cvars, bvars, hvars>>

\* event_tx.send(TrackStarted(track_state)), then the loop sleeps and
\* starts over
P_Emit ==
  /\ ppc = "emit"
  /\ events' = Append(events, Event("TrackStarted", p_track))
  /\ ppc' = "recv"
  /\ p_track' = 0
  /\ p_samples' = <<>>
  /\ UNCHANGED <<npvars, ltvars, xvars, kvars, aevars, rtvars, sdvars, jxvars, hcvars, gbvars, ecvars, control_tx, control_rx, running, state_track, track_queue,
                 samples, current_track, cvars, bvars, hvars>>

\* the producer's steps other than the handling of control commands
ProducerLoad(lens) ==
  \/ P_RecvEmpty \/ P_Check \/ P_Pop \/ P_FetchOk(lens) \/ P_Store \/ P_State
  \/ P_Emit

Producer ==
  \/ ProducerLoad(TrackLens) \/ P_FetchErr \/ P_RecvQueueTrack \/ P_RecvSkip
  \/ P_RecvStop

(***************************************************************************)
(* read_samples, skip, stop                                                *)
(***************************************************************************)
\* a drain that leaves the drained samples in the buffer
RemainingAll(buf, available) == buf

\* a drain that hands no sample to the caller
DrainedNone(buf, available) == <<>>

\* buffer.samples.drain(..available): the samples handed to the caller
Drained(buf, available) == SubSeq(buf, 1, available)

\* ... and what stays in the buffer
Remaining(buf, available) == SubSeq(buf, available + 1, Len(buf))

\* read_samples(output) with output.len() = n, under the buffer's write lock
ReadSamplesInto(n) ==
  LET available == Min(Len(samples), n)
      consumed == current_track.consumed_samples + available
      finished == consumed >= current_track.total_samples
  IN /\ samples' = Remaining(samples, available)
     /\ out' = out \o Drained(samples, available)
     /\ UNCHANGED loaded
     /\ IF current_track # NoTrack
          THEN /\ state_track' =
                    IF state_track # NoState
                       /\ state_track.track_id = current_track.track_id
                      THEN [state_track EXCEPT !.position = consumed]
                      ELSE state_track
               /\ current_track' =
                    IF finished THEN NoTrack
                    ELSE [current_track EXCEPT !.consumed_samples = consumed]
               /\ events' =
                    IF finished
                      THEN Append(events, Event("TrackEnded", current_track.track_id))
                      ELSE events
          ELSE UNCHANGED <<state_track, current_track, events>>

\* a consumer calls read_samples
ReadSamples ==
  /\ ReadSamplesInto(ReadBufLen)
  /\ UNCHANGED <<npvars, ltvars, xvars, kvars, aevars, rtvars, sdvars, jxvars, hcvars, gbvars, ecvars, control_tx, control_rx, running, track_queue, ppc, p_track,
                 p_samples, cvars, bvars, n_resets, clear_reset,
                 disc_due>>

\* Pipeline::skip() returns Err: the control channel's receiver is gone
PipelineSkipFails == control_tx /\ RxClosed

\* Pipeline::skip() returning Ok: tx.send(Skip).await completes when the
\* channel has room; without a control channel the call does nothing
PipelineSkipSent ==
  IF control_tx
    THEN /\ ~RxClosed
         /\ Len(control_rx) < CONTROL_CAPACITY
         /\ control_rx' = Append(control_rx, Command("Skip", 0))
    ELSE control_rx' = control_rx

\* a caller of Pipeline::skip()
PipelineSkip ==
  /\ n_skips < MaxSkips
  /\ n_skips' = n_skips + 1
  /\ \/ PipelineSkipSent
     \/ PipelineSkipFails /\ control_rx' = control_rx
  /\ UNCHANGED <<npvars, ltvars, xvars, kvars, aevars, rtvars, sdvars, jxvars, hcvars, gbvars, ecvars, control_tx, running, state_track, track_queue, samples,
                 current_track, events, ppc, p_track, p_samples,
                 qpc, n_queued, spc, bvars, hvars>>

\* stop(): let _ = tx.send(Stop).await
StopSend ==
  /\ spc = "idle"
  /\ IF control_tx /\ ~RxClosed
       THEN /\ Len(control_rx) < CONTROL_CAPACITY
            /\ control_rx' = Append(control_rx, Command("Stop", 0))
       ELSE control_rx' = control_rx
  /\ spc' = "sent"
  /\ UNCHANGED <<npvars, ltvars, xvars, kvars, aevars, rtvars, sdvars, jxvars, hcvars, gbvars, ecvars, control_tx, running, state_track, track_queue, samples,
                 current_track, events, ppc, p_track, p_samples,
                 qpc, n_queued, n_skips, bvars, hvars>>

\* stop(): state.running = false; event_tx.send(Stopped); return
StopReturn ==
  /\ spc = "sent"
  /\ running' = FALSE
  /\ events' = Append(events, Event("Stopped", 0))
  /\ spc' = "done"
  /\ UNCHANGED <<npvars, ltvars, xvars, kvars, aevars, rtvars, sdvars, jxvars, hcvars, gbvars, ecvars, control_tx, control_rx, state_track, track_queue, samples,
                 current_track, ppc, p_track, p_samples,
                 qpc, n_queued, n_skips, bvars, hvars>>

QueueTrack(max) ==
  \/ QueueTrackCall(max) \/ QueueTrackDirect \/ QueueTrackSend \/ QueueTrackFail

(***************************************************************************)
(* AudioBroadcaster                                                        *)
(***************************************************************************)
\* AudioBroadcasterConfig.segment_duration in seconds, scaled down from 2.0
SegmentDuration == 1
\* AudioBroadcasterConfig.playlist_length, scaled down from 5
PlaylistLength == 1
\* samples per channel of one MP3 frame, scaled down from 1152
FrameSamples == 1
\* number of encode calls that may fail in one run
MaxEncodeFails == 1

\* MP3_FRAME_SAMPLES = 1152 * OUTPUT_CHANNELS
MP3_FRAME_SAMPLES == FrameSamples * OUTPUT_CHANNELS
\* raw_samples = (segment_duration * OUTPUT_SAMPLE_RATE) as usize * OUTPUT_CHANNELS
raw_samples == SegmentDuration * SampleRate * OUTPUT_CHANNELS
\* samples_per_segment: raw_samples rounded up to whole MP3 frames
samples_per_segment ==
  ((raw_samples + MP3_FRAME_SAMPLES - 1) \div MP3_FRAME_SAMPLES) * MP3_FRAME_SAMPLES

\* a configured segment_duration is a number of 1/DurationUnit seconds
DurationUnit == 2

\* start(): raw_samples, truncated to usize, then samples_per_segment,
\* rounded up to whole MP3 frames
SamplesPerSegment(cfg) ==
  LET frame_samples == cfg.frame * OUTPUT_CHANNELS
      raw == ((cfg.segment_duration * cfg.sample_rate) \div DurationUnit)
               * OUTPUT_CHANNELS
  IN ((raw + frame_samples - 1) \div frame_samples) * frame_samples

\* number of clock ticks in a millisecond
TicksPerMs == 2

\* amount of time that passes in one step of the clock, in ticks
TickStep == 667

\* the clock stops at MaxElapsed ticks
MaxElapsed == 6000

\* max_lead_segments
max_lead_segments == 3

\* segment_duration_ms = (actual_segment_duration * 1000.0) as u64
segment_duration_ms(cfg) ==
  (SamplesPerSegment(cfg) * 1000) \div (cfg.sample_rate * OUTPUT_CHANNELS)

\* broadcast_start.elapsed().as_millis() as u64
actual_elapsed_ms == elapsed \div TicksPerMs

\* no throttling: the sleep that never happens
NoThrottleWait(current_sequence) == 0

\* wait_ms of the throttling before the segment numbered current_sequence
\* is made, 0 when the loop does not sleep
ThrottleWait(current_sequence) ==
  LET expected_time_ms == current_sequence * segment_duration_ms(broadcaster_config)
      max_lead_ms == max_lead_segments * segment_duration_ms(broadcaster_config)
  IN IF actual_elapsed_ms + max_lead_ms < expected_time_ms
     THEN expected_time_ms - actual_elapsed_ms - max_lead_ms
     ELSE 0

\* encode_samples returning an empty Vec
NoData == [instance |-> 0, index |-> 0, pcm |-> <<>>]
\* the bytes encode_samples returns: they depend on the encoder instance
\* (create_encoder calls so far), on what that instance encoded before
\* (the number of its earlier encode calls) and on the samples
Mp3Data(enc, pcm) == [instance |-> enc.instance, index |-> enc.used + 1, pcm |-> pcm]

HlsSegment(seq, id, data) == [sequence |-> seq, track_id |-> id, data |-> data]

\* the encoder thread has left its loop: its receiver is dropped
EncoderGone == epc = "done"
\* the broadcast loop task has ended: its encoder_rx is dropped
LoopGone == lpc = "done"

InitBroadcaster ==
  /\ b_running = FALSE
  /\ encoder_tx = FALSE
  /\ clear_buffers = FALSE
  /\ segments = <<>>
  /\ sequence = 0
  /\ media_sequence = 0
  /\ discontinuity = FALSE
  /\ current_track_id = 0
  /\ lpc = "unstarted"
  /\ sample_buffer = <<>>
  /\ ev_pos = 0
  /\ l_mp3 = NoData
  /\ enc_rx = <<>>
  /\ mp3_rx = <<>>
  /\ epc = "unstarted"
  /\ encoder = [instance |-> 0, used |-> 0]
  /\ n_fail = 0
  /\ kpc = "idle"

\* broadcast_start = Instant::now()
InitClock == elapsed = 0

\* no skip() has returned
InitSkip == skip_result = "none"

lvars == <<lpc, sample_buffer, ev_pos, l_mp3>>
evars == <<enc_rx, mp3_rx, epc, encoder, n_fail>>
svars == <<segments, sequence, media_sequence, discontinuity, current_track_id>>
ghosts == <<n_resets, clear_reset, disc_due>>

\* AudioBroadcaster::start(): if running was false, spawn the encoder thread
\* (which creates its encoder), store encoder_tx, subscribe to the pipeline's
\* events and spawn the broadcast loop
B_Start ==
  /\ ~b_running
  /\ lpc = "unstarted"
  /\ b_running' = TRUE
  /\ encoder_tx' = TRUE
  /\ epc' = "run"
  /\ encoder' = [instance |-> 1, used |-> 0]
  /\ ev_pos' = Len(events)
  /\ lpc' = "top"
  /\ UNCHANGED <<npvars, ltvars, xvars, kvars, aevars, rtvars, sdvars, jxvars, hcvars, gbvars, ecvars, pvars, cvars, clear_buffers, svars, sample_buffer, l_mp3,
                 enc_rx, mp3_rx, n_fail, kpc, hvars>>

\* AudioBroadcaster::stop(): clear running, send Shutdown to the encoder
\* thread
B_Stop ==
  /\ b_running
  /\ b_running' = FALSE
  /\ enc_rx' = IF encoder_tx /\ epc # "done"
                 THEN Append(enc_rx, [msg |-> "Shutdown", pcm |-> <<>>])
                 ELSE enc_rx
  /\ UNCHANGED <<npvars, ltvars, xvars, kvars, aevars, rtvars, sdvars, jxvars, hcvars, gbvars, ecvars, pvars, cvars, encoder_tx, clear_buffers, svars, lvars,
                 mp3_rx, epc, encoder, n_fail, kpc, hvars>>

(***************************************************************************)
(* The encoder thread.                                                     *)
(***************************************************************************)
\* EncoderMessage::Encode(samples) with encode_samples returning data:
\* mp3_tx.send(data); the thread ends when the reply cannot be sent
EncodeReply(data) ==
  /\ epc = "run"
  /\ enc_rx # <<>>
  /\ Head(enc_rx).msg = "Encode"
  /\ enc_rx' = Tail(enc_rx)
  /\ encoder' = [encoder EXCEPT !.used = @ + 1]
  /\ IF LoopGone
       THEN epc' = "done" /\ mp3_rx' = mp3_rx
       ELSE epc' = epc /\ mp3_rx' = Append(mp3_rx, data)
  /\ UNCHANGED <<npvars, ltvars, xvars, kvars, aevars, rtvars, sdvars, jxvars, hcvars, gbvars, ecvars, pvars, cvars, b_running, encoder_tx, clear_buffers, svars,
                 lvars, kpc, hvars>>

\* encode_samples succeeds
E_Encode ==
  /\ enc_rx # <<>>
  /\ EncodeReply(Mp3Data(encoder, Head(enc_rx).pcm))
  /\ UNCHANGED n_fail

\* encode_samples fails (an encoder error): it returns an empty Vec
E_EncodeFail ==
  /\ n_fail < MaxEncodeFails
  /\ n_fail' = n_fail + 1
  /\ EncodeReply(NoData)

\* the encoder after EncoderMessage::Reset: encoder = create_encoder()
ResetEncoder(enc) == [instance |-> enc.instance + 1, used |-> 0]

E_Reset ==
  /\ epc = "run"
  /\ enc_rx # <<>>
  /\ Head(enc_rx).msg = "Reset"
  /\ enc_rx' = Tail(enc_rx)
  /\ encoder' = ResetEncoder(encoder)
  /\ UNCHANGED <<npvars, ltvars, xvars, kvars, aevars, rtvars, sdvars, jxvars, hcvars, gbvars, ecvars, pvars, cvars, b_running, encoder_tx, clear_buffers, svars,
                 lvars, mp3_rx, epc, n_fail, kpc, hvars>>

\* EncoderMessage::Shutdown, or every sender dropped: the thread ends
E_Shutdown ==
  /\ epc = "run"
  /\ enc_rx # <<>>
  /\ Head(enc_rx).msg = "Shutdown"
  /\ enc_rx' = Tail(enc_rx)
  /\ epc' = "done"
  /\ UNCHANGED <<npvars, ltvars, xvars, kvars, aevars, rtvars, sdvars, jxvars, hcvars, gbvars, ecvars, pvars, cvars, b_running, encoder_tx, clear_buffers, svars,
                 lvars, mp3_rx, encoder, n_fail, kpc, hvars>>

\* the thread panics: an expect in create_encoder fails, or the encoder
\* library panics; the messages still queued are never handled
E_Panic ==
  /\ epc = "run"
  /\ epc' = "done"
  /\ UNCHANGED <<npvars, ltvars, xvars, kvars, aevars, rtvars, sdvars, jxvars, hcvars, gbvars, ecvars, pvars, cvars, b_running, encoder_tx, clear_buffers, svars,
                 lvars, enc_rx, mp3_rx, encoder, n_fail, kpc, hvars>>

EncoderThread == E_Encode \/ E_EncodeFail \/ E_Reset \/ E_Shutdown

EncoderMessage(msg, pcm) == [msg |-> msg, pcm |-> pcm]

\* tx.send(msg) on the channel to the encoder thread: the message is
\* queued unless the thread's receiver is gone
SentToEncoder(msg) == IF EncoderGone THEN enc_rx ELSE Append(enc_rx, msg)

(***************************************************************************)
(* The broadcast loop task.                                                *)
(***************************************************************************)
\* while running.load(): if clear_buffers.swap(false) { sample_buffer.clear() }
L_Top ==
  /\ lpc = "top"
  /\ IF ~b_running
       THEN /\ lpc' = "shutdown"
            /\ UNCHANGED <<clear_buffers, sample_buffer>>
       ELSE /\ lpc' = "events"
            /\ clear_buffers' = FALSE
            /\ sample_buffer' = IF clear_buffers THEN <<>> ELSE sample_buffer
  /\ UNCHANGED <<npvars, ltvars, xvars, kvars, aevars, rtvars, sdvars, jxvars, hcvars, gbvars, ecvars, pvars, cvars, b_running, encoder_tx, svars, ev_pos, l_mp3,
                 evars, kpc, hvars>>

\* pipeline_events.try_recv()
L_Events ==
  /\ lpc = "events"
  /\ IF ev_pos < Len(events)
       THEN LET e == events[ev_pos + 1]
            IN /\ ev_pos' = ev_pos + 1
               /\ current_track_id' =
                    IF e.type = "TrackStarted" THEN e.track_id ELSE current_track_id
               /\ lpc' = IF e.type = "Stopped" THEN "shutdown" ELSE "read"
       ELSE /\ lpc' = "read"
            /\ UNCHANGED <<ev_pos, current_track_id>>
  /\ UNCHANGED <<npvars, ltvars, xvars, kvars, aevars, rtvars, sdvars, jxvars, hcvars, gbvars, ecvars, control_tx, control_rx, running, state_track, track_queue,
                 samples, current_track, events, ppc, p_track, p_samples, cvars,
                 b_running, encoder_tx, clear_buffers, segments, sequence,
                 media_sequence, discontinuity, sample_buffer, l_mp3, evars,
                 kpc, hvars>>

\* pipeline.read_samples(&mut read_buffer); with no samples the loop sleeps
\* and starts over, otherwise it stages them and goes on to cut a segment
\* once enough are staged
L_Read ==
  /\ lpc = "read"
  /\ ReadSamplesInto(ReadBufLen)
  /\ LET samples_read == Min(Len(samples), ReadBufLen)
         staged == sample_buffer \o Drained(samples, samples_read)
     IN IF samples_read = 0
          THEN lpc' = "top" /\ sample_buffer' = sample_buffer
          ELSE /\ sample_buffer' = staged
               /\ lpc' = IF Len(staged) >= samples_per_segment THEN "throttle" ELSE "top"
  /\ UNCHANGED <<npvars, ltvars, xvars, kvars, aevars, rtvars, sdvars, jxvars, hcvars, gbvars, ecvars, control_tx, control_rx, running, track_queue, ppc, p_track,
                 p_samples, cvars, b_running, encoder_tx, clear_buffers, svars,
                 ev_pos, l_mp3, evars, kpc, ghosts>>

\* the real-time throttle: read st.sequence, sleep if too far ahead
L_Throttle ==
  /\ lpc = "throttle"
  /\ elapsed' = elapsed + ThrottleWait(sequence) * TicksPerMs
  /\ lpc' = "encode"
  /\ UNCHANGED <<npvars, ltvars, xvars, kvars, aevars, sdvars, jxvars, hcvars, gbvars, ecvars, pvars, cvars, b_running, encoder_tx, clear_buffers, svars,
                 sample_buffer, ev_pos, l_mp3, evars, kpc, hvars>>

\* real time passes while the broadcast loop runs
Tick ==
  /\ lpc \notin {"unstarted", "done"}
  /\ elapsed + TickStep <= MaxElapsed
  /\ elapsed' = elapsed + TickStep
  /\ UNCHANGED <<npvars, ltvars, xvars, kvars, aevars, pvars, cvars, bvars, hvars, ecvars, gbvars, hcvars, jxvars,
                 sdvars>>

\* sample_buffer.drain(..samples_per_segment), encoder_tx.send(Encode(..));
\* the loop ends when the send fails
L_Encode ==
  /\ lpc = "encode"
  /\ LET n == Min(Len(sample_buffer), samples_per_segment)
     IN /\ sample_buffer' = SubSeq(sample_buffer, n + 1, Len(sample_buffer))
        /\ enc_rx' = SentToEncoder(EncoderMessage("Encode", SubSeq(sample_buffer, 1, n)))
  /\ lpc' = IF EncoderGone THEN "shutdown" ELSE "wait"
  /\ UNCHANGED <<npvars, ltvars, xvars, kvars, aevars, rtvars, sdvars, jxvars, hcvars, gbvars, ecvars, pvars, cvars, b_running, encoder_tx, clear_buffers, svars,
                 ev_pos, l_mp3, mp3_rx, epc, encoder, n_fail, kpc, hvars>>

\* encoder_rx.recv() returns the reply; an empty one is skipped
L_Recv ==
  /\ lpc = "wait"
  /\ mp3_rx # <<>>
  /\ mp3_rx' = Tail(mp3_rx)
  /\ IF Head(mp3_rx) = NoData
       THEN lpc' = "top" /\ l_mp3' = NoData
       ELSE lpc' = "append" /\ l_mp3' = Head(mp3_rx)
  /\ UNCHANGED <<npvars, ltvars, xvars, kvars, aevars, rtvars, sdvars, jxvars, hcvars, gbvars, ecvars, pvars, cvars, b_running, encoder_tx, clear_buffers, svars,
                 sample_buffer, ev_pos, enc_rx, epc, encoder, n_fail, kpc,
                 hvars>>

\* encoder_rx.recv() returns Err: the encoder thread is gone; the loop ends
L_RecvErr ==
  /\ lpc = "wait"
  /\ mp3_rx = <<>>
  /\ EncoderGone
  /\ lpc' = "shutdown"
  /\ UNCHANGED <<npvars, ltvars, xvars, kvars, aevars, rtvars, sdvars, jxvars, hcvars, gbvars, ecvars, pvars, cvars, b_running, encoder_tx, clear_buffers, svars,
                 sample_buffer, ev_pos, l_mp3, evars, kpc, hvars>>

\* a numbering that gives every segment the same number
NextSequenceStuck(seq) == seq

\* the sequence number given to the segment after the one numbered seq
NextSequence(seq) == seq + 1

\* a window that is never trimmed
EvictedNone(n) == 0

\* while st.segments.len() > st.playlist_length + 2 { pop_front() }: the
\* number of segments dropped from a window of n segments
Evicted(n) == IF n > PlaylistLength + 2 THEN n - (PlaylistLength + 2) ELSE 0

\* under the state's write lock: number the segment, push it, drop the
\* oldest segments and advance media_sequence by one for each
L_Append ==
  /\ lpc = "append"
  /\ LET pushed == Append(segments, HlsSegment(sequence, current_track_id, l_mp3))
         k == Evicted(Len(pushed))
     IN /\ segments' = SubSeq(pushed, k + 1, Len(pushed))
        /\ media_sequence' = media_sequence + k
  /\ sequence' = NextSequence(sequence)
  /\ l_mp3' = NoData
  /\ lpc' = "top"
  /\ UNCHANGED <<npvars, ltvars, xvars, kvars, aevars, rtvars, sdvars, jxvars, hcvars, gbvars, ecvars, pvars, cvars, b_running, encoder_tx, clear_buffers,
                 discontinuity, current_track_id, sample_buffer, ev_pos, evars,
                 kpc, hvars>>

\* after the loop: encoder_tx.send(Shutdown); the task ends
L_Shutdown ==
  /\ lpc = "shutdown"
  /\ enc_rx' = SentToEncoder(EncoderMessage("Shutdown", <<>>))
  /\ lpc' = "done"
  /\ UNCHANGED <<npvars, ltvars, xvars, kvars, aevars, rtvars, sdvars, jxvars, hcvars, gbvars, ecvars, pvars, cvars, b_running, encoder_tx, clear_buffers, svars,
                 sample_buffer, ev_pos, l_mp3, mp3_rx, epc, encoder, n_fail,
                 kpc, hvars>>

\* the loop's steps while it runs
BroadcastLoop ==
  \/ L_Top \/ L_Events \/ L_Read \/ L_Throttle \/ L_Encode \/ L_Recv \/ L_Append

\* the steps that end the loop
BroadcastLoopEnd == L_RecvErr \/ L_Shutdown

(***************************************************************************)
(* AudioBroadcaster::skip                                                  *)
(***************************************************************************)
\* self.clear_buffers.store(true)
S_Flag ==
  /\ kpc = "idle"
  /\ n_skips < MaxSkips
  /\ n_skips' = n_skips + 1
  /\ clear_buffers' = TRUE
  /\ kpc' = "reset"
  /\ UNCHANGED <<npvars, ltvars, xvars, kvars, aevars, rtvars, sdvars, jxvars, hcvars, gbvars, ecvars, pvars, qpc, n_queued, spc, b_running, encoder_tx, svars,
                 lvars, evars, hvars>>

\* if let Some(tx) = encoder_tx { let _ = tx.send(Reset) }
S_Reset ==
  /\ kpc = "reset"
  /\ enc_rx' = IF encoder_tx THEN SentToEncoder(EncoderMessage("Reset", <<>>))
               ELSE enc_rx
  /\ n_resets' = IF encoder_tx /\ ~EncoderGone THEN n_resets + 1 ELSE n_resets
  /\ kpc' = "pipe"
  /\ UNCHANGED <<npvars, ltvars, xvars, kvars, aevars, rtvars, sdvars, jxvars, hcvars, gbvars, ecvars, pvars, cvars, b_running, encoder_tx, clear_buffers, svars,
                 lvars, mp3_rx, epc, encoder, n_fail,
                 out, loaded, clear_reset, disc_due>>

\* self.pipeline.skip().await?: on Err skip() returns it at once
S_Pipe ==
  /\ kpc = "pipe"
  /\ \/ PipelineSkipSent /\ kpc' = "clear"
     \/ PipelineSkipFails /\ control_rx' = control_rx /\ kpc' = "idle"
  /\ skip_result' = IF kpc' = "idle" THEN "Err" ELSE skip_result
  /\ UNCHANGED <<npvars, ltvars, xvars, aevars, rtvars, sdvars, jxvars, hcvars, gbvars, ecvars, control_tx, running, state_track, track_queue, samples,
                 current_track, events, ppc, p_track, p_samples, cvars,
                 b_running, encoder_tx, clear_buffers, svars, lvars, evars,
                 hvars>>

\* a skip that leaves media_sequence alone
KeptMediaSequence(ms, n) == ms

\* media_sequence after skip() dropped a window of n segments
SkippedMediaSequence(ms, n) == ms + n

\* under the state's write lock: drop the window, advance media_sequence,
\* set discontinuity
S_Clear ==
  /\ kpc = "clear"
  /\ media_sequence' = SkippedMediaSequence(media_sequence, Len(segments))
  /\ segments' = <<>>
  /\ discontinuity' = TRUE
  /\ clear_reset' = n_resets
  /\ disc_due' = TRUE
  /\ clear_out' = Len(out)
  /\ kpc' = "wait"
  /\ UNCHANGED <<npvars, ltvars, kvars, aevars, rtvars, sdvars, jxvars, hcvars, gbvars, ecvars, pvars, cvars, b_running, encoder_tx, clear_buffers, sequence,
                 current_track_id, lvars, evars, out, loaded,
                 n_resets>>

\* the wait for the first segment: a poll finds the window non-empty
S_WaitDone ==
  /\ kpc = "wait"
  /\ segments # <<>>
  /\ kpc' = "idle"
  /\ skip_result' = "Ok"
  /\ UNCHANGED <<npvars, ltvars, xvars, aevars, rtvars, sdvars, jxvars, hcvars, gbvars, ecvars, pvars, cvars, b_running, encoder_tx, clear_buffers, svars,
                 lvars, evars, hvars>>

\* a wait without its timeout
S_WaitForever ==
  /\ FALSE
  /\ UNCHANGED vars

\* ... or the window is still empty when the 10 s have passed
S_WaitTimeout ==
  /\ kpc = "wait"
  /\ segments = <<>>
  /\ kpc' = "idle"
  /\ skip_result' = "Ok"
  /\ UNCHANGED <<npvars, ltvars, xvars, aevars, rtvars, sdvars, jxvars, hcvars, gbvars, ecvars, pvars, cvars, b_running, encoder_tx, clear_buffers, svars,
                 lvars, evars, hvars>>

Skip == S_Flag \/ S_Reset \/ S_Pipe \/ S_Clear \/ S_WaitDone \/ S_WaitTimeout

(***************************************************************************)
(* AudioBroadcaster::get_playlist                                          *)
(***************************************************************************)
Line(tag, arg) == [tag |-> tag, arg |-> arg]

\* the two lines of one segment; the duration is written in samples
SegmentLines(seg) ==
  <<Line("#EXTINF", samples_per_segment), Line("segment", seg.sequence)>>

RECURSIVE WindowLines(_, _, _)
\* the loop over state.segments.iter().enumerate(), from index i on
WindowLines(segs, i, has_discontinuity) ==
  IF i >= Len(segs) THEN <<>>
  ELSE (IF i = 0 /\ has_discontinuity THEN <<Line("#EXT-X-DISCONTINUITY", 0)>> ELSE <<>>)
       \o SegmentLines(segs[i + 1])
       \o WindowLines(segs, i + 1, has_discontinuity)

\* a playlist that lists no segment
HeaderOnly(segs, ms, has_discontinuity) ==
  <<Line("#EXTM3U", 0), Line("#EXT-X-VERSION", 3),
    Line("#EXT-X-TARGETDURATION", SegmentDuration),
    Line("#EXT-X-MEDIA-SEQUENCE", ms)>>

\* the playlist text, line by line
Rendered(segs, ms, has_discontinuity) ==
  <<Line("#EXTM3U", 0), Line("#EXT-X-VERSION", 3),
    Line("#EXT-X-TARGETDURATION", SegmentDuration),
    Line("#EXT-X-MEDIA-SEQUENCE", ms)>>
  \o WindowLines(segs, 0, has_discontinuity)

\* a rendering that leaves state.discontinuity as it was
DiscontinuityKept(d) == d

\* the value of state.discontinuity get_playlist leaves behind
DiscontinuityAfterRender(d) == FALSE

\* what get_playlist() returns when called in the current state
Playlist == Rendered(segments, media_sequence, discontinuity)

\* Option::None of get_segment
Absent == HlsSegment(-1, 0, NoData)

\* get_segment(s), under the state's read lock:
\* segments.iter().find(|seg| seg.sequence == s).cloned()
GetSegment(s) ==
  LET found == {i \in 1..Len(segments) : segments[i].sequence = s}
  IN IF found = {} THEN Absent
     ELSE segments[CHOOSE i \in found : \A j \in found : i <= j]

\* get_playlist(), under the state's write lock: it returns Playlist and
\* clears the flag
GetPlaylist ==
  /\ discontinuity' = DiscontinuityAfterRender(discontinuity)
  /\ disc_due' = (disc_due /\ segments = <<>>)
  /\ UNCHANGED <<npvars, ltvars, xvars, kvars, aevars, rtvars, sdvars, jxvars, hcvars, gbvars, ecvars, pvars, cvars, b_running, encoder_tx, clear_buffers, segments,
                 sequence, media_sequence, current_track_id, lvars, evars, kpc,
                 out, loaded, n_resets, clear_reset>>

(***************************************************************************)
(* Embedding indexing control (api/library.rs)                             *)
(***************************************************************************)
\* number of indexing tasks alive at once in one run
MaxWorkers == 2
\* number of tracks without an embedding an indexing task finds
MaxTracks == 2

\* enum EmbeddingControlState
ControlStates == {"Idle", "Running", "Paused", "Stopping"}

NoWorker == [pc |-> "none", left |-> 0, should_stop |-> FALSE]
NoCommand == [cmd |-> "none", from |-> "Idle", result |-> "Ok", applied |-> FALSE]
Reply(cmd, from, result, applied) ==
  [cmd |-> cmd, from |-> from, result |-> result, applied |-> applied]

\* AppState.embedding_control starts as EmbeddingControlState::default()
InitEmbedding ==
  /\ embedding_control = "Idle"
  /\ workers = [w \in 1..MaxWorkers |-> NoWorker]
  /\ start_seen = "none"
  /\ last = NoCommand

FreeWorkers == {w \in 1..MaxWorkers : workers[w].pc = "none"}
FirstFree == CHOOSE w \in FreeWorkers : \A v \in FreeWorkers : w <= v

\* index_embeddings_stream with a valid token: the "already running" check
\* reads the control state
EC_StartCheck ==
  /\ start_seen = "none"
  /\ FreeWorkers # {}
  /\ start_seen' = embedding_control
  /\ UNCHANGED <<npvars, ltvars, xvars, kvars, aevars, rtvars, sdvars, jxvars, hcvars, gbvars, pvars, cvars, bvars, hvars, embedding_control, workers, last>>

\* what index_embeddings_stream reports for a start that found state from:
\* the Error event "already running", or nothing
StartResult(from) == IF from \in {"Running", "Paused"} THEN "Error" ELSE "Ok"

\* index_embeddings_stream with the encoder configured: set Running and
\* spawn the indexing task, whatever the check found
EC_StartSet ==
  /\ start_seen # "none"
  /\ embedding_control' = "Running"
  /\ workers' = [workers EXCEPT ![FirstFree] =
                   [pc |-> "query", left |-> 0, should_stop |-> FALSE]]
  /\ last' = Reply("start", start_seen, StartResult(start_seen), TRUE)
  /\ start_seen' = "none"
  /\ UNCHANGED <<npvars, ltvars, xvars, kvars, aevars, rtvars, sdvars, jxvars, hcvars, gbvars, pvars, cvars, bvars, hvars>>

\* a pause that is accepted in every state
PauseAlwaysOk(from) == "Ok"

\* pause_embeddings: Conflict unless Running
PauseResult(from) == IF from # "Running" THEN "Conflict" ELSE "Ok"

EC_Pause ==
  /\ last' = Reply("pause", embedding_control, PauseResult(embedding_control),
                   PauseResult(embedding_control) = "Ok")
  /\ embedding_control' =
       IF PauseResult(embedding_control) = "Ok" THEN "Paused" ELSE embedding_control
  /\ UNCHANGED <<npvars, ltvars, xvars, kvars, aevars, rtvars, sdvars, jxvars, hcvars, gbvars, pvars, cvars, bvars, hvars, workers, start_seen>>

\* resume_embeddings: Conflict unless Paused
ResumeResult(from) == IF from # "Paused" THEN "Conflict" ELSE "Ok"
EC_Resume ==
  /\ last' = Reply("resume", embedding_control, ResumeResult(embedding_control),
                   ResumeResult(embedding_control) = "Ok")
  /\ embedding_control' =
       IF ResumeResult(embedding_control) = "Ok" THEN "Running" ELSE embedding_control
  /\ UNCHANGED <<npvars, ltvars, xvars, kvars, aevars, rtvars, sdvars, jxvars, hcvars, gbvars, pvars, cvars, bvars, hvars, workers, start_seen>>

\* stop_embeddings: Conflict if Idle
StopResult(from) == IF from = "Idle" THEN "Conflict" ELSE "Ok"
EC_Stop ==
  /\ last' = Reply("stop", embedding_control, StopResult(embedding_control),
                   StopResult(embedding_control) = "Ok")
  /\ embedding_control' =
       IF StopResult(embedding_control) = "Ok" THEN "Stopping" ELSE embedding_control
  /\ UNCHANGED <<npvars, ltvars, xvars, kvars, aevars, rtvars, sdvars, jxvars, hcvars, gbvars, pvars, cvars, bvars, hvars, workers, start_seen>>

\* the indexing task: the query fails or finds no track; the task sets Idle
\* and ends
W_QueryNone(w) ==
  /\ workers[w].pc = "query"
  /\ embedding_control' = "Idle"
  /\ workers' = [workers EXCEPT ![w] = NoWorker]
  /\ UNCHANGED <<npvars, ltvars, xvars, kvars, aevars, rtvars, sdvars, jxvars, hcvars, gbvars, pvars, cvars, bvars, hvars, start_seen, last>>

\* the indexing task: the query finds n tracks
W_QuerySome(w) ==
  /\ workers[w].pc = "query"
  /\ \E n \in 1..MaxTracks :
       workers' = [workers EXCEPT ![w] =
                     [pc |-> "poll", left |-> n, should_stop |-> FALSE]]
  /\ UNCHANGED <<npvars, ltvars, xvars, kvars, aevars, rtvars, sdvars, jxvars, hcvars, gbvars, pvars, cvars, bvars, hvars, embedding_control, start_seen, last>>

\* the indexing task at the start of a track (tracks are taken one at a
\* time here): should_stop or Stopping or Idle give the track up, Paused
\* sleeps and polls again, Running goes on to process the track
W_Poll(w) ==
  /\ workers[w].pc = "poll"
  /\ workers[w].left > 0
  /\ \/ workers[w].should_stop
     \/ embedding_control # "Paused"
  /\ workers' = [workers EXCEPT ![w] =
       IF workers[w].should_stop \/ embedding_control = "Idle"
         THEN [@ EXCEPT !.left = @ - 1]
       ELSE IF embedding_control = "Stopping"
         THEN [@ EXCEPT !.left = @ - 1, !.should_stop = TRUE]
       ELSE [@ EXCEPT !.pc = "process"]]
  /\ UNCHANGED <<npvars, ltvars, xvars, kvars, aevars, rtvars, sdvars, jxvars, hcvars, gbvars, pvars, cvars, bvars, hvars, embedding_control, start_seen, last>>

\* the indexing task: encoder.process_track returns
W_Process(w) ==
  /\ workers[w].pc = "process"
  /\ workers' = [workers EXCEPT ![w] = [@ EXCEPT !.pc = "poll", !.left = @ - 1]]
  /\ UNCHANGED <<npvars, ltvars, xvars, kvars, aevars, rtvars, sdvars, jxvars, hcvars, gbvars, pvars, cvars, bvars, hvars, embedding_control, start_seen, last>>

\* the indexing task after its last track: send Completed, set Idle, end
W_Finish(w) ==
  /\ workers[w].pc = "poll"
  /\ workers[w].left = 0
  /\ embedding_control' = "Idle"
  /\ workers' = [workers EXCEPT ![w] = NoWorker]
  /\ UNCHANGED <<npvars, ltvars, xvars, kvars, aevars, rtvars, sdvars, jxvars, hcvars, gbvars, pvars, cvars, bvars, hvars, start_seen, last>>

Worker ==
  \E w \in 1..MaxWorkers :
    W_QueryNone(w) \/ W_QuerySome(w) \/ W_Poll(w) \/ W_Process(w) \/ W_Finish(w)

(***************************************************************************)
(* get_hls_playlist and get_or_create_broadcaster (api/stations.rs), for   *)
(* one station that exists                                                 *)
(***************************************************************************)
\* number of concurrent get_hls_playlist requests
MaxRequests == 2
\* number of (pipeline, broadcaster) pairs that can be created in one run
MaxPairs == 3

\* a pair not yet created; started: pipeline.start() has run;
\* running: AudioBroadcaster.running
NoPair == [started |-> FALSE, running |-> FALSE]

InitStation ==
  /\ station_broadcasters = 0
  /\ pairs = [p \in 1..MaxPairs |-> NoPair]
  /\ requests = [r \in 1..MaxRequests |-> [pc |-> "idle", pair |-> 0]]

\* the pairs never created
FreePairs == {p \in 1..MaxPairs : ~pairs[p].started}

\* get_or_create_broadcaster: under the map's read lock, return the
\* station's broadcaster if there is one and it is running
GB_Check(r) ==
  /\ requests[r].pc = "idle"
  /\ requests' = [requests EXCEPT ![r] =
       IF station_broadcasters # 0 /\ pairs[station_broadcasters].running
         THEN [pc |-> "start", pair |-> station_broadcasters]
         ELSE [pc |-> "create", pair |-> 0]]
  /\ UNCHANGED <<npvars, ltvars, xvars, kvars, aevars, rtvars, sdvars, jxvars, hcvars, pvars, cvars, bvars, hvars, ecvars, station_broadcasters, pairs>>

\* get_or_create_broadcaster: AudioPipeline::new, queue the station's
\* tracks, pipeline.start(), AudioBroadcaster::new
GB_Create(r) ==
  /\ requests[r].pc = "create"
  /\ FreePairs # {}
  /\ LET p == CHOOSE q \in FreePairs : \A o \in FreePairs : q <= o
     IN /\ pairs' = [pairs EXCEPT ![p] = [started |-> TRUE, running |-> FALSE]]
        /\ requests' = [requests EXCEPT ![r] = [pc |-> "insert", pair |-> p]]
  /\ UNCHANGED <<npvars, ltvars, xvars, kvars, aevars, rtvars, sdvars, jxvars, hcvars, pvars, cvars, bvars, hvars, ecvars, station_broadcasters>>

\* get_or_create_broadcaster: under the map's write lock,
\* broadcasters.insert(station_id, broadcaster)
GB_Insert(r) ==
  /\ requests[r].pc = "insert"
  /\ station_broadcasters' = requests[r].pair
  /\ requests' = [requests EXCEPT ![r].pc = "start"]
  /\ UNCHANGED <<npvars, ltvars, xvars, kvars, aevars, rtvars, sdvars, jxvars, hcvars, pvars, cvars, bvars, hvars, ecvars, pairs>>

\* get_hls_playlist: if !broadcaster.is_running() { broadcaster.start() }
GB_StartBroadcaster(r) ==
  /\ requests[r].pc = "start"
  /\ pairs' = [pairs EXCEPT ![requests[r].pair].running = TRUE]
  /\ requests' = [requests EXCEPT ![r].pc = "playlist"]
  /\ UNCHANGED <<npvars, ltvars, xvars, kvars, aevars, rtvars, sdvars, jxvars, hcvars, pvars, cvars, bvars, hvars, ecvars, station_broadcasters>>

\* get_hls_playlist: broadcaster.get_playlist() and the response; the
\* client asks again later
GB_Respond(r) ==
  /\ requests[r].pc = "playlist"
  /\ requests' = [requests EXCEPT ![r] = [pc |-> "idle", pair |-> 0]]
  /\ UNCHANGED <<npvars, ltvars, xvars, kvars, aevars, rtvars, sdvars, jxvars, hcvars, pvars, cvars, bvars, hvars, ecvars, station_broadcasters, pairs>>

GetHlsPlaylist ==
  \E r \in 1..MaxRequests :
    GB_Check(r) \/ GB_Create(r) \/ GB_Insert(r) \/ GB_StartBroadcaster(r)
    \/ GB_Respond(r)

(***************************************************************************)
(* Hybrid curation: services/hybrid_curator.rs, services/seed_selector.rs  *)
(***************************************************************************)
\* largest limit a caller passes
MaxLimit == 5

\* largest number of seeds the seed selector returns
MaxSeeds == 5

\* capacity of the channel curate creates
CURATE_CAPACITY == 10

\* capacity of the channel the streaming handler creates
STREAM_CAPACITY == 100

\* usize::saturating_sub
saturating_sub(a, b) == IF a > b THEN a - b ELSE 0

InitCurator ==
  /\ progress = <<>>
  /\ progress_rx = "none"
  /\ progress_cap = 0
  /\ cpc = "idle"
  /\ c_limit = 0
  /\ use_hybrid = FALSE
  /\ c_seeds = <<>>
  /\ c_missing = 0
  /\ c_i = 0
  /\ playlist = <<>>

\* select_seeds: the n seeds the two strategies found, with the position
\* i * interval the function assigns to seed i
SelectSeeds(n, total_playlist_size) ==
  LET interval == IF n > 1 THEN total_playlist_size \div n ELSE 0
  IN [k \in 1..n |-> [track_id |-> <<"seed", k>>, position |-> (k - 1) * interval]]

\* the track ids a similarity or genre query returns
SimilarTracks(n) == [j \in 1..n |-> <<"similar", j>>]

\* a playlist that is not interleaved: the seeds, then the similar tracks
SeedsThenSimilar(seeds, total_size, similar_tracks) ==
  [k \in 1..Len(seeds) |-> seeds[k].track_id] \o similar_tracks

\* fill_gaps_between_seeds, the interleaving loop: each seed followed by
\* its gap of similar tracks, as far as the iterator has any
FillGaps(seeds, total_size, similar_tracks) ==
  LET num_gaps == Len(seeds)
      tracks_to_fill == saturating_sub(total_size, Len(seeds))
      tracks_per_gap == tracks_to_fill \div num_gaps
      remainder == tracks_to_fill % num_gaps
      gap_size(i) == IF i < remainder THEN tracks_per_gap + 1 ELSE tracks_per_gap
      RECURSIVE Build(_, _)
      Build(i, similar_iter) ==
        IF i = num_gaps THEN <<>>
        ELSE LET taken == Min(gap_size(i), Len(similar_iter))
             IN <<seeds[i + 1].track_id>> \o SubSeq(similar_iter, 1, taken)
                \o Build(i + 1, SubSeq(similar_iter, taken + 1, Len(similar_iter)))
  IN Build(0, similar_tracks)

\* fallback_curation: the seeds, then the genre query's rows
FallbackPlaylist(seeds, similar) ==
  [k \in 1..Len(seeds) |-> seeds[k].track_id] \o similar

\* tx.send(p).await with its result ignored: waits while the channel is
\* full and the receiver exists, returns at once when the receiver is gone
SendProgress(p) ==
  IF progress_rx = "dropped"
    THEN progress' = progress
    ELSE /\ Len(progress) < progress_cap
         /\ progress' = Append(progress, p)

\* curate: a channel of its own whose receiver is bound and never read
HC_Curate ==
  /\ cpc = "idle"
  /\ \E limit \in 1..MaxLimit : c_limit' = limit
  /\ progress_cap' = CURATE_CAPACITY
  /\ progress_rx' = "held"
  /\ cpc' = "Started"
  /\ UNCHANGED <<npvars, ltvars, xvars, kvars, aevars, rtvars, sdvars, jxvars, pvars, cvars, bvars, hvars, ecvars, gbvars, progress,
                 use_hybrid, c_seeds, c_missing, c_i, playlist>>

\* hybrid_curate_stream: a channel whose receiver a forwarding task reads
HC_CurateStream ==
  /\ cpc = "idle"
  /\ \E limit \in 1..MaxLimit : c_limit' = limit
  /\ progress_cap' = STREAM_CAPACITY
  /\ progress_rx' = "live"
  /\ cpc' = "Started"
  /\ UNCHANGED <<npvars, ltvars, xvars, kvars, aevars, rtvars, sdvars, jxvars, pvars, cvars, bvars, hvars, ecvars, gbvars, progress,
                 use_hybrid, c_seeds, c_missing, c_i, playlist>>

\* send(Started)
HC_Started ==
  /\ cpc = "Started"
  /\ SendProgress("Started")
  /\ cpc' = "coverage"
  /\ UNCHANGED <<npvars, ltvars, xvars, kvars, aevars, rtvars, sdvars, jxvars, pvars, cvars, bvars, hvars, ecvars, gbvars, progress_rx,
                 progress_cap, c_limit, use_hybrid, c_seeds, c_missing, c_i,
                 playlist>>

\* get_embedding_coverage and the comparison with min_embedding_coverage
HC_Coverage ==
  /\ cpc = "coverage"
  /\ use_hybrid' \in BOOLEAN
  /\ cpc' = "CheckingEmbeddings"
  /\ UNCHANGED <<npvars, ltvars, xvars, kvars, aevars, rtvars, sdvars, jxvars, pvars, cvars, bvars, hvars, ecvars, gbvars, progress,
                 progress_rx, progress_cap, c_limit, c_seeds, c_missing, c_i,
                 playlist>>

\* send(CheckingEmbeddings); low coverage goes to fallback_curation
\* (fallback_enabled is true in the default configuration)
HC_CheckingEmbeddings ==
  /\ cpc = "CheckingEmbeddings"
  /\ SendProgress("CheckingEmbeddings")
  /\ cpc' = IF use_hybrid THEN "SelectingSeeds" ELSE "fallback"
  /\ UNCHANGED <<npvars, ltvars, xvars, kvars, aevars, rtvars, sdvars, jxvars, pvars, cvars, bvars, hvars, ecvars, gbvars, progress_rx,
                 progress_cap, c_limit, use_hybrid, c_seeds, c_missing, c_i,
                 playlist>>

\* send(SelectingSeeds)
HC_SelectingSeeds ==
  /\ cpc = "SelectingSeeds"
  /\ SendProgress("SelectingSeeds")
  /\ cpc' = "select_seeds"
  /\ UNCHANGED <<npvars, ltvars, xvars, kvars, aevars, rtvars, sdvars, jxvars, pvars, cvars, bvars, hvars, ecvars, gbvars, progress_rx,
                 progress_cap, c_limit, use_hybrid, c_seeds, c_missing, c_i,
                 playlist>>

\* select_seeds(query, seed_count, limit); no seed goes to
\* fallback_curation
HC_SelectSeeds ==
  /\ cpc = "select_seeds"
  /\ \E n \in 0..MaxSeeds : c_seeds' = SelectSeeds(n, c_limit)
  /\ cpc' = IF c_seeds' = <<>> THEN "fallback" ELSE "SeedsSelected"
  /\ UNCHANGED <<npvars, ltvars, xvars, kvars, aevars, rtvars, sdvars, jxvars, pvars, cvars, bvars, hvars, ecvars, gbvars, progress,
                 progress_rx, progress_cap, c_limit, use_hybrid, c_missing,
                 c_i, playlist>>

\* send(SeedsSelected)
HC_SeedsSelected ==
  /\ cpc = "SeedsSelected"
  /\ SendProgress("SeedsSelected")
  /\ cpc' = "check_missing"
  /\ UNCHANGED <<npvars, ltvars, xvars, kvars, aevars, rtvars, sdvars, jxvars, pvars, cvars, bvars, hvars, ecvars, gbvars, progress_rx,
                 progress_cap, c_limit, use_hybrid, c_seeds, c_missing, c_i,
                 playlist>>

\* fill_gaps_between_seeds: check_missing_embeddings
HC_CheckMissing ==
  /\ cpc = "check_missing"
  /\ c_missing' \in 0..Len(c_seeds)
  /\ c_i' = 0
  /\ cpc' = IF c_missing' = 0 THEN "FillingGaps" ELSE "GeneratingEmbeddings"
  /\ UNCHANGED <<npvars, ltvars, xvars, kvars, aevars, rtvars, sdvars, jxvars, pvars, cvars, bvars, hvars, ecvars, gbvars, progress,
                 progress_rx, progress_cap, c_limit, use_hybrid, c_seeds,
                 playlist>>

\* generate_missing_embeddings: one pass of the loop, the send and then
\* process_track
HC_GeneratingEmbeddings ==
  /\ cpc = "GeneratingEmbeddings"
  /\ SendProgress("GeneratingEmbeddings")
  /\ c_i' = c_i + 1
  /\ cpc' = IF c_i + 1 = c_missing THEN "FillingGaps" ELSE "GeneratingEmbeddings"
  /\ UNCHANGED <<npvars, ltvars, xvars, kvars, aevars, rtvars, sdvars, jxvars, pvars, cvars, bvars, hvars, ecvars, gbvars, progress_rx,
                 progress_cap, c_limit, use_hybrid, c_seeds, c_missing,
                 playlist>>

\* fill_gaps_between_seeds: progress_tx.send(FillingGaps)
HC_FillingGaps ==
  /\ cpc = "FillingGaps"
  /\ SendProgress("FillingGaps")
  /\ cpc' = "find_similar"
  /\ UNCHANGED <<npvars, ltvars, xvars, kvars, aevars, rtvars, sdvars, jxvars, pvars, cvars, bvars, hvars, ecvars, gbvars, progress_rx,
                 progress_cap, c_limit, use_hybrid, c_seeds, c_missing, c_i,
                 playlist>>

\* fill_gaps_between_seeds: find_similar_to_seeds returns at most the
\* tracks_to_fill asked for (none on an error), then the interleaving
HC_FindSimilar ==
  /\ cpc = "find_similar"
  /\ \E n \in 0..saturating_sub(c_limit, Len(c_seeds)) :
       playlist' = FillGaps(c_seeds, c_limit, SimilarTracks(n))
  /\ cpc' = "Completed"
  /\ UNCHANGED <<npvars, ltvars, xvars, kvars, aevars, rtvars, sdvars, jxvars, pvars, cvars, bvars, hvars, ecvars, gbvars, progress,
                 progress_rx, progress_cap, c_limit, use_hybrid, c_seeds,
                 c_missing, c_i>>

\* fallback_curation: progress_tx.send(SelectingSeeds)
HC_FallbackSelecting ==
  /\ cpc = "fallback"
  /\ SendProgress("SelectingSeeds")
  /\ cpc' = "fallback_select"
  /\ UNCHANGED <<npvars, ltvars, xvars, kvars, aevars, rtvars, sdvars, jxvars, pvars, cvars, bvars, hvars, ecvars, gbvars, progress_rx,
                 progress_cap, c_limit, use_hybrid, c_seeds, c_missing, c_i,
                 playlist>>

\* fallback_curation: select_seeds(query, seed_count.min(limit), limit);
\* with no seed, get_random_tracks(limit)
HC_FallbackSelect ==
  /\ cpc = "fallback_select"
  /\ \E n \in 0..MaxSeeds :
       /\ c_seeds' = SelectSeeds(n, c_limit)
       /\ IF n = 0
            THEN /\ \E r \in 0..c_limit : playlist' = SimilarTracks(r)
                 /\ cpc' = "Completed"
            ELSE /\ playlist' = playlist
                 /\ cpc' = "FallbackSeedsSelected"
  /\ UNCHANGED <<npvars, ltvars, xvars, kvars, aevars, rtvars, sdvars, jxvars, pvars, cvars, bvars, hvars, ecvars, gbvars, progress,
                 progress_rx, progress_cap, c_limit, use_hybrid, c_missing,
                 c_i>>

\* fallback_curation: progress_tx.send(SeedsSelected)
HC_FallbackSeedsSelected ==
  /\ cpc = "FallbackSeedsSelected"
  /\ SendProgress("SeedsSelected")
  /\ cpc' = "fallback_fill"
  /\ UNCHANGED <<npvars, ltvars, xvars, kvars, aevars, rtvars, sdvars, jxvars, pvars, cvars, bvars, hvars, ecvars, gbvars, progress_rx,
                 progress_cap, c_limit, use_hybrid, c_seeds, c_missing, c_i,
                 playlist>>

\* fallback_curation: the seeds, extended by the genre query when
\* remaining > 0 (LIMIT remaining)
HC_FallbackFill ==
  /\ cpc = "fallback_fill"
  /\ \E n \in 0..saturating_sub(c_limit, Len(c_seeds)) :
       playlist' = FallbackPlaylist(c_seeds, SimilarTracks(n))
  /\ cpc' = "Completed"
  /\ UNCHANGED <<npvars, ltvars, xvars, kvars, aevars, rtvars, sdvars, jxvars, pvars, cvars, bvars, hvars, ecvars, gbvars, progress,
                 progress_rx, progress_cap, c_limit, use_hybrid, c_seeds,
                 c_missing, c_i>>

\* send(Completed) and Ok(playlist); curate's receiver goes out of scope
\* when curate returns
HC_Completed ==
  /\ cpc = "Completed"
  /\ SendProgress("Completed")
  /\ cpc' = "done"
  /\ progress_rx' = IF progress_rx = "held" THEN "dropped" ELSE progress_rx
  /\ UNCHANGED <<npvars, ltvars, xvars, kvars, aevars, rtvars, sdvars, jxvars, pvars, cvars, bvars, hvars, ecvars, gbvars, progress_cap,
                 c_limit, use_hybrid, c_seeds, c_missing, c_i, playlist>>

\* a database, model or API call returns an error and the ? operator propagates it
HC_Err ==
  /\ cpc \in {"coverage", "select_seeds", "check_missing", "find_similar",
              "fallback_select", "fallback_fill"}
  /\ cpc' = "failed"
  /\ progress_rx' = IF progress_rx = "held" THEN "dropped" ELSE progress_rx
  /\ UNCHANGED <<npvars, ltvars, xvars, kvars, aevars, rtvars, sdvars, jxvars, pvars, cvars, bvars, hvars, ecvars, gbvars, progress,
                 progress_cap, c_limit, use_hybrid, c_seeds, c_missing, c_i,
                 playlist>>

\* the forwarding task: rx.recv()
PR_Recv ==
  /\ progress_rx = "live"
  /\ progress # <<>>
  /\ progress' = Tail(progress)
  /\ UNCHANGED <<npvars, ltvars, xvars, kvars, aevars, rtvars, sdvars, jxvars, pvars, cvars, bvars, hvars, ecvars, gbvars, progress_rx,
                 progress_cap, cpc, c_limit, use_hybrid, c_seeds, c_missing,
                 c_i, playlist>>

\* the forwarding task ends (the client went away) and drops the receiver
PR_Drop ==
  /\ progress_rx = "live"
  /\ progress_rx' = "dropped"
  /\ progress' = <<>>
  /\ UNCHANGED <<npvars, ltvars, xvars, kvars, aevars, rtvars, sdvars, jxvars, pvars, cvars, bvars, hvars, ecvars, gbvars, progress_cap,
                 cpc, c_limit, use_hybrid, c_seeds, c_missing, c_i, playlist>>

CurateWithProgress ==
  \/ HC_Started \/ HC_Coverage \/ HC_CheckingEmbeddings \/ HC_SelectingSeeds
  \/ HC_SelectSeeds \/ HC_SeedsSelected \/ HC_CheckMissing
  \/ HC_GeneratingEmbeddings \/ HC_FillingGaps \/ HC_FindSimilar
  \/ HC_FallbackSelecting \/ HC_FallbackSelect \/ HC_FallbackSeedsSelected
  \/ HC_FallbackFill \/ HC_Completed \/ HC_Err


(***************************************************************************)
(* Extraction of the JSON object from a model response                     *)
(* (services/seed_selector.rs).  A text is a sequence of tokens: a token   *)
(* is one character, except FENCE, three backticks, and "json", the word.  *)
(***************************************************************************)
\* longest text between the fences of a response
MaxBody == 6

FENCE == "fence"

\* the characters str::trim removes
Whitespace == {" ", "\n"}

\* the tokens a response body is made of
BodyTokens == {FENCE, "{", "}", "\"", "\\"}

\* what comes before and after the body of a response
Prefixes == {<<>>, <<FENCE>>, <<FENCE, "json">>, <<FENCE, "json", "\n">>}
Suffixes == {<<>>, <<"\n", FENCE>>}

\* Option<String>
None == [state |-> "none", value |-> <<>>]
Some(v) == [state |-> "some", value |-> v]
\* before the call
Pending == [state |-> "pending", value |-> <<>>]

\* the texts of n tokens
RECURSIVE Texts(_)
Texts(n) ==
  IF n = 0 THEN {<<>>}
  ELSE LET shorter == Texts(n - 1)
       IN shorter \cup {Append(t, c) : t \in {u \in shorter : Len(u) = n - 1},
                                       c \in BodyTokens}

\* the responses with a body of at most n tokens
Responses(n) == {p \o b \o e : p \in Prefixes, b \in Texts(n), e \in Suffixes}

InitCallClaude ==
  /\ content_text = <<>>
  /\ json_text = Pending

\* text[from..], from counted from 0
From(text, from) == SubSeq(text, from + 1, Len(text))

\* text[..to]
Upto(text, to) == SubSeq(text, 1, to)

\* str::trim
RECURSIVE trim(_)
trim(text) ==
  IF text = <<>> THEN text
  ELSE IF Head(text) \in Whitespace THEN trim(Tail(text))
  ELSE IF text[Len(text)] \in Whitespace THEN trim(Upto(text, Len(text) - 1))
  ELSE text

\* str::find: the offset of the first occurrence of pat, or -1
find(text, pat) ==
  LET at == {i \in 0..(Len(text) - Len(pat)) :
               SubSeq(text, i + 1, i + Len(pat)) = pat}
  IN IF at = {} THEN -1 ELSE CHOOSE i \in at : \A j \in at : i <= j

\* find_json_object: from the first "{", count braces outside of strings
\* and return the text up to the brace that closes the first one
find_json_object(text) ==
  LET start == find(text, <<"{">>)
      chars == From(text, start)
      RECURSIVE Scan(_, _, _, _)
      Scan(i, depth, in_string, escape_next) ==
        IF i >= Len(chars) THEN None
        ELSE LET ch == chars[i + 1]
             IN IF escape_next THEN Scan(i + 1, depth, in_string, FALSE)
                ELSE IF ch = "\\" /\ in_string
                  THEN Scan(i + 1, depth, in_string, TRUE)
                ELSE IF ch = "\""
                  THEN Scan(i + 1, depth, ~in_string, FALSE)
                ELSE IF ch = "{" /\ ~in_string
                  THEN Scan(i + 1, depth + 1, in_string, FALSE)
                ELSE IF ch = "}" /\ ~in_string
                  THEN IF depth - 1 = 0 THEN Some(Upto(chars, i + 1))
                       ELSE Scan(i + 1, depth - 1, in_string, FALSE)
                ELSE Scan(i + 1, depth, in_string, FALSE)
  IN IF start = -1 THEN None ELSE Scan(0, 0, FALSE, FALSE)

\* the content between a fence that begins at from and the next fence:
\* its JSON object, if both are there
Fenced(text, from) ==
  LET end == find(From(text, from), <<FENCE>>)
  IN IF end = -1 THEN None
     ELSE find_json_object(trim(Upto(From(text, from), end)))

\* extract_first_json_object: the object inside a json fence, else
\* inside a plain fence (after the line of the fence), else the first
\* object of the text
extract_first_json_object(untrimmed) ==
  LET text == trim(untrimmed)
      json_start == find(text, <<FENCE, "json">>)
      in_json_fence ==
        IF json_start = -1 THEN None ELSE Fenced(text, json_start + 2)
      start == find(text, <<FENCE>>)
      after_fence == From(text, start + 1)
      newline == find(after_fence, <<"\n">>)
      content_start == IF newline = -1 THEN 0 ELSE newline + 1
      in_fence ==
        IF start = -1 THEN None ELSE Fenced(after_fence, content_start)
  IN IF in_json_fence # None THEN in_json_fence
     ELSE IF in_fence # None THEN in_fence
     ELSE find_json_object(text)

\* call_claude: the response arrives and its JSON text is extracted
CallClaude ==
  /\ json_text = Pending
  /\ json_text' = extract_first_json_object(content_text)
  /\ UNCHANGED <<npvars, ltvars, xvars, kvars, aevars, rtvars, sdvars, pvars, cvars, bvars, hvars, ecvars, gbvars, hcvars,
                 content_text>>


(***************************************************************************)
(* The segment duration a broadcaster announces and the one it produces    *)
(* (services/audio_broadcaster.rs: start and get_playlist)                 *)
(***************************************************************************)
\* largest configured segment_duration, in 1/DurationUnit seconds (the
\* smallest is one second)
MaxDurationUnits == 4

\* largest sample rate
MaxRate == 4

\* largest number of samples per channel of an MP3 frame
MaxFrame == 3

\* HLS_SEGMENT_DURATION, in seconds
HLS_SEGMENT_DURATION == 2

\* OUTPUT_SAMPLE_RATE
OUTPUT_SAMPLE_RATE == 44100

\* samples per channel of an MP3 frame
FRAME_SAMPLES_PER_CHANNEL == 1152

BroadcasterConfig(duration, rate, frame) ==
  [segment_duration |-> duration, sample_rate |-> rate, frame |-> frame]

\* AudioBroadcasterConfig::default() with the constants of the build
DefaultConfig ==
  BroadcasterConfig(HLS_SEGMENT_DURATION * DurationUnit, OUTPUT_SAMPLE_RATE,
                    FRAME_SAMPLES_PER_CHANNEL)

\* the configuration of the broadcaster of the other sections
ScaledConfig ==
  BroadcasterConfig(SegmentDuration * DurationUnit, SampleRate, FrameSamples)

Configs ==
  {BroadcasterConfig(d, r, f) :
     d \in DurationUnit..MaxDurationUnits, r \in 1..MaxRate,
     f \in 1..MaxFrame}
  \cup {DefaultConfig}

InitDuration ==
  /\ broadcaster_config = ScaledConfig
  /\ actual_segment_duration = <<>>
  /\ playlist_header = <<>>

\* f32::ceil of num / den, as u32
Ceil(num, den) == (num + den - 1) \div den

\* "{:.3}" of num / den, in thousandths
Format3(num, den) == (2 * 1000 * num + den) \div (2 * den)

\* start(): samples_per_segment / (OUTPUT_SAMPLE_RATE * OUTPUT_CHANNELS),
\* the duration of every segment
SD_Start ==
  /\ actual_segment_duration = <<>>
  /\ actual_segment_duration' =
       <<SamplesPerSegment(broadcaster_config),
         broadcaster_config.sample_rate * OUTPUT_CHANNELS>>
  /\ UNCHANGED <<npvars, ltvars, xvars, kvars, aevars, rtvars, pvars, cvars, bvars, hvars, ecvars, gbvars, hcvars, jxvars,
                 broadcaster_config, playlist_header>>

\* get_playlist(): config.segment_duration.ceil() in #EXT-X-TARGETDURATION,
\* segment.duration in #EXTINF
SD_GetPlaylist ==
  /\ actual_segment_duration # <<>>
  /\ playlist_header = <<>>
  /\ playlist_header' =
       <<Line("#EXT-X-TARGETDURATION",
              Ceil(broadcaster_config.segment_duration, DurationUnit)),
         Line("#EXTINF",
              Format3(actual_segment_duration[1], actual_segment_duration[2]))>>
  /\ UNCHANGED <<npvars, ltvars, xvars, kvars, aevars, rtvars, pvars, cvars, bvars, hvars, ecvars, gbvars, hcvars, jxvars,
                 broadcaster_config, actual_segment_duration>>


(***************************************************************************)
(* AudioEncoder: the embedding store and its similarity queries            *)
(* (services/audio_encoder.rs)                                             *)
(***************************************************************************)
\* number of tracks of the library
MaxLibrary == 3

\* number of distinct embeddings encode_file can produce; an embedding is a
\* point on a line, and the <-> distance of two points is their difference
MaxEmbedding == 2

\* largest attempt_count of a row of embedding_failures
MaxAttempts == 2

\* largest limit of a similarity query
MaxSimilar == 2

LibraryIds == 1..MaxLibrary
Genres == {"ambient", "techno"}

\* SQL NULL
NULL == {"NULL"}

NoCall == [op |-> "none"]

\* the results of encode_file: an embedding or an error
Encoded ==
  {[ok |-> TRUE, embedding |-> e] : e \in 1..MaxEmbedding}
    \cup {[ok |-> FALSE, embedding |-> 0]}

\* an empty track_embeddings and embedding_failures; no track has genres
InitEncoder ==
  /\ library_index = [t \in LibraryIds |-> {}]
  /\ track_embeddings = <<>>
  /\ embedding_failures = [t \in LibraryIds |-> 0]
  /\ ae_last = NoCall

\* a check that never finds a record
NeverExists(track_id) == FALSE

\* SELECT 1 FROM track_embeddings WHERE track_id = $1: exists.is_some()
Exists(track_id) == track_id \in DOMAIN track_embeddings

\* INSERT ... ON CONFLICT (track_id) DO UPDATE of table, a function
Upsert(table, track_id, row) ==
  [t \in DOMAIN table \cup {track_id} |->
     IF t = track_id THEN row ELSE table[t]]

\* process_track(track_id, audio_path), one call from its first statement
\* to its return; encoded is what encode_file(audio_path) returns
ProcessTrack(track_id, encoded) ==
  /\ IF Exists(track_id)
     THEN /\ ae_last' = [op |-> "process_track", track_id |-> track_id,
                         encoded |-> FALSE, result |-> "Ok"]
          /\ UNCHANGED <<track_embeddings, embedding_failures>>
     ELSE IF encoded.ok
     THEN /\ track_embeddings' =
               Upsert(track_embeddings, track_id, encoded.embedding)
          /\ ae_last' = [op |-> "process_track", track_id |-> track_id,
                         encoded |-> TRUE, result |-> "Ok"]
          /\ UNCHANGED embedding_failures
     ELSE /\ embedding_failures[track_id] < MaxAttempts
          /\ embedding_failures' =
               [embedding_failures EXCEPT ![track_id] = @ + 1]
          /\ ae_last' = [op |-> "process_track", track_id |-> track_id,
                         encoded |-> TRUE, result |-> "Err"]
          /\ UNCHANGED track_embeddings
  /\ UNCHANGED <<npvars, ltvars, xvars, kvars, rtvars, pvars, cvars, bvars, hvars, ecvars, gbvars, hcvars, jxvars,
                 sdvars, library_index>>

\* SELECT array_agg(genre) over the distinct genres of the tracks ids:
\* NULL when there is none
allowed_genres(ids) ==
  LET all == UNION {library_index[t] : t \in ids}
  IN IF all = {} THEN NULL ELSE all

\* a filter every row passes
AnyGenre(genres, allowed) == TRUE

\* li.genres ?| ag.genres, as the WHERE clause takes it: a NULL is not true
HasAnyGenre(genres, allowed) ==
  allowed # NULL /\ genres \cap allowed # {}

\* ORDER BY te.embedding <-> $1::vector LIMIT $k over the rows of ids, for
\* the distance Distance: every list of the nearest rows, nearest first
Nearest(ids, Distance(_), k) ==
  LET n == Min(k, Cardinality(ids))
  IN {r \in [1..n -> ids] :
        /\ \A i, j \in 1..n : i < j =>
             /\ r[i] # r[j]
             /\ Distance(r[i]) <= Distance(r[j])
        /\ \A t \in ids \ {r[i] : i \in 1..n} :
             \A i \in 1..n : Distance(r[i]) <= Distance(t)}

Abs(x) == IF x < 0 THEN 0 - x ELSE x

\* find_similar(track_id, limit, exclude_ids): an error when the source has
\* no embedding, otherwise the rows that are not the source, not excluded,
\* and pass the genre filter, which is off when the source has no genre
FindSimilar(track_id, limit, exclude_ids) ==
  /\ IF ~ Exists(track_id)
     THEN ae_last' = [op |-> "find_similar", track_id |-> track_id,
                      limit |-> limit, exclude_ids |-> exclude_ids,
                      ok |-> FALSE, result |-> <<>>]
     ELSE LET ag == allowed_genres({track_id})
              rows == {t \in DOMAIN track_embeddings :
                         /\ t # track_id
                         /\ t \notin exclude_ids
                         /\ (ag = NULL \/ HasAnyGenre(library_index[t], ag))}
              Distance(t) ==
                Abs(track_embeddings[t] - track_embeddings[track_id])
          IN \E r \in Nearest(rows, Distance, limit) :
               ae_last' = [op |-> "find_similar", track_id |-> track_id,
                           limit |-> limit, exclude_ids |-> exclude_ids,
                           ok |-> TRUE, result |-> r]
  /\ UNCHANGED <<npvars, ltvars, xvars, kvars, rtvars, pvars, cvars, bvars, hvars, ecvars, gbvars, hcvars, jxvars,
                 sdvars, library_index, track_embeddings, embedding_failures>>

\* find_similar_to_seeds(seed_ids, limit, exclude_ids): nothing when no seed
\* has an embedding, otherwise the rows nearest to the centroid of the
\* seeds' embeddings that are neither seeds nor excluded and have a genre
\* of a seed
FindSimilarToSeeds(seed_ids, limit, exclude_ids) ==
  /\ LET seed_embeddings == seed_ids \cap DOMAIN track_embeddings
         count == Cardinality(seed_embeddings)
         RECURSIVE Sum(_)
         Sum(ids) ==
           IF ids = {} THEN 0
           ELSE LET t == CHOOSE x \in ids : TRUE
                IN track_embeddings[t] + Sum(ids \ {t})
         all_exclude == exclude_ids \cup seed_ids
         ag == allowed_genres(seed_ids)
         rows == {t \in DOMAIN track_embeddings :
                    /\ t \notin all_exclude
                    /\ HasAnyGenre(library_index[t], ag)}
         \* the distance to the centroid sum / count, times count
         Distance(t) == Abs(count * track_embeddings[t] - Sum(seed_embeddings))
     IN \E r \in (IF seed_embeddings = {} THEN {<<>>}
                  ELSE Nearest(rows, Distance, limit)) :
          ae_last' = [op |-> "find_similar_to_seeds", seed_ids |-> seed_ids,
                      limit |-> limit, exclude_ids |-> exclude_ids,
                      result |-> r]
  /\ UNCHANGED <<npvars, ltvars, xvars, kvars, rtvars, pvars, cvars, bvars, hvars, ecvars, gbvars, hcvars, jxvars,
                 sdvars, library_index, track_embeddings, embedding_failures>>

(***************************************************************************)
(* The track ids of a curated playlist: seed_selector.rs select_seeds and  *)
(* hybrid_curator.rs curate_with_progress, over the library LibraryIds     *)
(***************************************************************************)
\* seed_count of the scaled HybridCurationConfig
SeedCount == 2

\* largest number of songs, or of ids, one answer of the language model lists
MaxIdeal == 2

\* the answers of the language model: for every ideal song the library
\* track the two match queries return for it, or a list of ids; 0 is a song
\* neither query finds, or an id that is no track's
Answers == UNION {[1..n -> 0..MaxLibrary] : n \in 0..MaxIdeal}

\* the ids of a list of tracks
Ids(tracks) == {tracks[i] : i \in 1..Len(tracks)}

\* the lists of n different rows of the set rows (n is at most its size)
Rows(rows, n) ==
  {r \in [1..n -> rows] : \A i, j \in 1..n : i < j => r[i] # r[j]}

\* try_ideal_songs: for each ideal song, in order, the track its exact or
\* else its fuzzy match found; a song without a match is left out
TryIdealSongs(matches) == SelectSeq(matches, LAMBDA m : m \in LibraryIds)

\* get_genre_filtered_sample (LIMIT 160) merged with get_library_sample
\* (LIMIT 40): in a library of MaxLibrary tracks, every track that is not
\* excluded
Sample(exclude_ids) == LibraryIds \ exclude_ids

\* pick_from_library: nothing when the library has no genre; otherwise, for
\* each id of response.selected_ids, in order, the track of the sample with
\* that id; an id not in the sample is left out
PickFromLibrary(selected_ids, exclude_ids) ==
  IF UNION {library_index[t] : t \in LibraryIds} = {} THEN <<>>
  ELSE SelectSeq(selected_ids, LAMBDA id : id \in Sample(exclude_ids))

\* select_seeds, the two strategies: the ideal songs found, extended by
\* picks from a sample without them when they are fewer than seed_count
SeedIds(matches, selected_ids, seed_count) ==
  LET seeds == TryIdealSongs(matches)
  IN IF Len(seeds) < seed_count
       THEN seeds \o PickFromLibrary(selected_ids, Ids(seeds))
       ELSE seeds

\* select_seeds, the positions: seed i is given position i * interval
Positioned(ids, total_playlist_size) ==
  LET interval == IF Len(ids) > 1 THEN total_playlist_size \div Len(ids) ELSE 0
  IN [k \in 1..Len(ids) |-> [track_id |-> ids[k], position |-> (k - 1) * interval]]

\* the embedding store as generate_missing_embeddings leaves it
InitLibrary ==
  /\ library_index \in [LibraryIds -> {{}, {"ambient"}}]
  /\ \E ids \in SUBSET LibraryIds :
       track_embeddings \in [ids -> 1..MaxEmbedding]
  /\ embedding_failures = [t \in LibraryIds |-> 0]
  /\ ae_last = NoCall

CU_Rest == <<pvars, cvars, bvars, hvars, ecvars, gbvars, jxvars, sdvars, rtvars,
             kvars, xvars, ltvars, progress, progress_rx, progress_cap,
             c_missing, c_i>>

\* curate_with_progress(query, limit): the coverage check chooses the
\* hybrid path or fallback_curation
CU_Curate ==
  /\ cpc = "idle"
  /\ \E limit \in 1..MaxLimit : c_limit' = limit
  /\ \E hybrid \in BOOLEAN : use_hybrid' = hybrid
  /\ cpc' = "select_seeds"
  /\ UNCHANGED <<npvars, CU_Rest, aevars, c_seeds, playlist>>

\* select_seeds(query, seed_count, limit) of either path; without a seed
\* the hybrid path goes to fallback_curation and fallback_curation returns
\* get_random_tracks(limit)
CU_SelectSeeds ==
  /\ cpc = "select_seeds"
  /\ \E matches \in Answers, selected_ids \in Answers :
       c_seeds' = Positioned(SeedIds(matches, selected_ids,
                                     IF use_hybrid THEN SeedCount
                                     ELSE Min(SeedCount, c_limit)),
                             c_limit)
  /\ IF c_seeds' # <<>>
       THEN /\ cpc' = IF use_hybrid THEN "find_similar" ELSE "fallback_fill"
            /\ UNCHANGED <<use_hybrid, playlist>>
       ELSE IF use_hybrid
         THEN /\ use_hybrid' = FALSE
              /\ cpc' = "select_seeds"
              /\ UNCHANGED playlist
         ELSE /\ \E r \in Rows(LibraryIds, Min(c_limit, MaxLibrary)) : playlist' = r
              /\ cpc' = "done"
              /\ UNCHANGED use_hybrid
  /\ UNCHANGED <<npvars, CU_Rest, aevars, c_limit>>

\* fill_gaps_between_seeds: find_similar_to_seeds(seed_ids, tracks_to_fill, [])
CU_FindSimilar ==
  /\ cpc = "find_similar"
  /\ ae_last = NoCall
  /\ FindSimilarToSeeds({c_seeds[k].track_id : k \in 1..Len(c_seeds)},
                        saturating_sub(c_limit, Len(c_seeds)), {})

\* fill_gaps_between_seeds: the interleaving loop and Ok(playlist)
CU_FillGaps ==
  /\ cpc = "find_similar"
  /\ ae_last # NoCall
  /\ playlist' = FillGaps(c_seeds, c_limit, ae_last.result)
  /\ cpc' = "done"
  /\ UNCHANGED <<npvars, CU_Rest, aevars, c_limit, use_hybrid, c_seeds>>

\* fallback_curation: the seeds, extended when remaining > 0 by the rows
\* that are no seed and share a genre with a seed (LIMIT remaining)
CU_FallbackFill ==
  /\ cpc = "fallback_fill"
  /\ LET seed_ids == {c_seeds[k].track_id : k \in 1..Len(c_seeds)}
         remaining == saturating_sub(c_limit, Len(c_seeds))
         rows == {t \in LibraryIds :
                    /\ t \notin seed_ids
                    /\ \E seed \in seed_ids :
                         library_index[seed] \cap library_index[t] # {}}
     IN \E r \in Rows(rows, Min(remaining, Cardinality(rows))) :
          playlist' = FallbackPlaylist(c_seeds, r)
  /\ cpc' = "done"
  /\ UNCHANGED <<npvars, CU_Rest, aevars, c_limit, use_hybrid, c_seeds>>

(***************************************************************************)
(* The life of the broadcast loop tasks of one AudioBroadcaster            *)
(***************************************************************************)
\* number of broadcast loop tasks one broadcaster spawns in a run
MaxLoops == 3

NoLoop == [pc |-> "none", exit |-> "none"]

InitLoops == loop_tasks = [i \in 1..MaxLoops |-> NoLoop]

\* the tasks that are spawned and have not ended
AliveLoops == {i \in 1..MaxLoops : loop_tasks[i].pc \notin {"none", "done"}}

\* the task the next successful start() spawns
NextLoop == CHOOSE i \in 1..MaxLoops :
              loop_tasks[i].pc = "none"
              /\ \A j \in 1..MaxLoops : loop_tasks[j].pc = "none" => i <= j

BR_Rest == <<encoder_tx, clear_buffers, svars, lvars, evars, kpc>>

\* start() of a broadcaster whose flag is set: returns Ok(())
BR_StartRunning ==
  /\ b_running
  /\ UNCHANGED vars

\* start(): running.swap(true) returned false; the loop task is spawned
BR_StartSpawn ==
  /\ ~b_running
  /\ \E i \in 1..MaxLoops : loop_tasks[i].pc = "none"
  /\ b_running' = TRUE
  /\ loop_tasks' = [loop_tasks EXCEPT ![NextLoop] = [pc |-> "top", exit |-> "none"]]
  /\ UNCHANGED <<npvars, pvars, cvars, BR_Rest, hvars, ecvars, gbvars, hcvars, jxvars,
                 sdvars, rtvars, aevars, kvars, xvars>>

BR_Start == BR_StartRunning \/ BR_StartSpawn

\* stop(): running.store(false)
BR_Stop ==
  /\ b_running' = FALSE
  /\ UNCHANGED <<npvars, pvars, cvars, BR_Rest, hvars, ecvars, gbvars, hcvars, jxvars,
                 sdvars, rtvars, aevars, kvars, xvars, ltvars>>

BR_Move(i, pc, exit) ==
  /\ loop_tasks' = [loop_tasks EXCEPT ![i] = [pc |-> pc, exit |-> exit]]
  /\ UNCHANGED <<npvars, pvars, cvars, bvars, hvars, ecvars, gbvars, hcvars, jxvars,
                 sdvars, rtvars, aevars, kvars, xvars>>

\* while running.load(Ordering::Relaxed)
BR_While(i) ==
  /\ loop_tasks[i].pc = "top"
  /\ IF b_running THEN BR_Move(i, "events", "none")
                  ELSE BR_Move(i, "shutdown", "flag")

\* pipeline_events.try_recv(): Stopped breaks the loop, anything else goes on
BR_Events(i) ==
  /\ loop_tasks[i].pc = "events"
  /\ \/ BR_Move(i, "encode", "none")
     \/ BR_Move(i, "shutdown", "stopped")

\* the rest of the iteration: the reply of the encoder thread arrives, or
\* the thread is gone and the loop breaks
BR_Encode(i) ==
  /\ loop_tasks[i].pc = "encode"
  /\ \/ BR_Move(i, "top", "none")
     \/ BR_Move(i, "shutdown", "encoder")

\* after the loop: encoder_tx.send(Shutdown); the task ends
BR_End(i) ==
  /\ loop_tasks[i].pc = "shutdown"
  /\ BR_Move(i, "done", loop_tasks[i].exit)

BR_Loop == \E i \in 1..MaxLoops : BR_While(i) \/ BR_Events(i) \/ BR_Encode(i) \/ BR_End(i)

(***************************************************************************)
(* StationManager::get_now_playing (services/station_manager.rs)           *)
(***************************************************************************)
\* number of concurrent callers of get_now_playing
MaxCallers == 2

\* number of tracks the station can select from; track t lasts t seconds
StationTracks == 2

\* the seconds a run lasts
MaxNow == 3

\* largest number of rows of playlist_history
MaxHistory == 4

NoCallNP == [pc |-> "idle", seen |-> 0, track |-> 0, now |-> 0]

\* start_station has run: play_next_track gave the station its first track
InitNowPlaying ==
  /\ active_station = [current_track |-> 1, started_at |-> 0, turn |-> 1]
  /\ playlist_history = <<[track_id |-> 1, played_at |-> 0, ended |-> 0]>>
  /\ np_calls = [c \in 1..MaxCallers |-> NoCallNP]
  /\ utc_now = 0

NP_Rest == <<pvars, cvars, bvars, hvars, ecvars, gbvars, hcvars, jxvars, sdvars,
             rtvars, aevars, kvars, xvars, ltvars>>

\* under the read lock: elapsed >= track.duration
should_advance ==
  utc_now - active_station.started_at >= active_station.current_track

\* get_now_playing: should_advance is computed under the read lock, which
\* is released before play_next_track is called
NP_Check(c) ==
  /\ np_calls[c].pc = "idle"
  /\ Len(playlist_history) < MaxHistory
  /\ np_calls' = [np_calls EXCEPT ![c] =
                    [pc |-> IF should_advance THEN "select" ELSE "read",
                     seen |-> active_station.turn, track |-> 0, now |-> 0]]
  /\ UNCHANGED <<NP_Rest, active_station, playlist_history, utc_now>>

\* play_next_track: the station, its recent tracks, select_next_track
NP_Select(c) ==
  /\ np_calls[c].pc = "select"
  /\ \E t \in 1..StationTracks :
       np_calls' = [np_calls EXCEPT ![c].pc = "insert", ![c].track = t]
  /\ UNCHANGED <<NP_Rest, active_station, playlist_history, utc_now>>

\* play_next_track: now = Utc::now(); INSERT INTO playlist_history
NP_Insert(c) ==
  /\ np_calls[c].pc = "insert"
  /\ playlist_history' =
       Append(playlist_history,
              [track_id |-> np_calls[c].track, played_at |-> utc_now,
               ended |-> np_calls[c].seen])
  /\ np_calls' = [np_calls EXCEPT ![c].pc = "update", ![c].now = utc_now]
  /\ UNCHANGED <<NP_Rest, active_station, utc_now>>

\* play_next_track, under the write lock: current_track and started_at
NP_Update(c) ==
  /\ np_calls[c].pc = "update"
  /\ active_station' = [current_track |-> np_calls[c].track,
                        started_at |-> np_calls[c].now,
                        turn |-> active_station.turn + 1]
  /\ np_calls' = [np_calls EXCEPT ![c].pc = "read"]
  /\ UNCHANGED <<NP_Rest, playlist_history, utc_now>>

\* get_now_playing, under the read lock again: Ok(NowPlaying)
NP_Return(c) ==
  /\ np_calls[c].pc = "read"
  /\ np_calls' = [np_calls EXCEPT ![c] = NoCallNP]
  /\ UNCHANGED <<NP_Rest, active_station, playlist_history, utc_now>>

\* a second passes
NP_Tick ==
  /\ utc_now < MaxNow
  /\ utc_now' = utc_now + 1
  /\ UNCHANGED <<NP_Rest, active_station, playlist_history, np_calls>>

GetNowPlaying ==
  \E c \in 1..MaxCallers :
    NP_Check(c) \/ NP_Select(c) \/ NP_Insert(c) \/ NP_Update(c) \/ NP_Return(c)

(***************************************************************************)
(* Specifications                                                          *)
(***************************************************************************)
Init ==
  /\ InitPipeline /\ InitCallers /\ InitBroadcaster /\ InitHistory
  /\ InitEmbedding
  /\ InitStation
  /\ InitCurator
  /\ InitCallClaude
  /\ InitDuration
  /\ InitClock
  /\ InitSkip
  /\ InitLoops
  /\ InitNowPlaying
  /\ InitEncoder

\* one pipeline with its producer, the callers of its API and a consumer
NextAP ==
  \/ Start \/ QueueTrack(MaxQueued) \/ Producer \/ ReadSamples \/ PipelineSkip
  \/ StopSend \/ StopReturn

SpecAP == Init /\ [][NextAP]_vars

\* the same pipeline with a producer task that keeps being scheduled and a
\* consumer that keeps calling read_samples
SpecPL == Init /\ [][NextAP]_vars /\ WF_vars(Producer) /\ WF_vars(ReadSamples)

\* number of tracks get_or_create_broadcaster queues before start()
PreQueued == 2

\* the state get_or_create_broadcaster leaves: a pipeline with PreQueued
\* tracks queued directly and then started, and a new broadcaster
InitAB ==
  /\ control_tx = TRUE
  /\ control_rx = <<>>
  /\ running = TRUE
  /\ state_track = NoState
  /\ track_queue = [i \in 1..PreQueued |-> i]
  /\ samples = <<>>
  /\ current_track = NoTrack
  /\ events = <<>>
  /\ ppc = "recv"
  /\ p_track = 0
  /\ p_samples = <<>>
  /\ qpc = "idle"
  /\ n_queued = PreQueued
  /\ n_skips = 0
  /\ spc = "idle"
  /\ InitBroadcaster
  /\ InitHistory
  /\ InitEmbedding
  /\ InitStation
  /\ InitCurator
  /\ InitCallClaude
  /\ InitDuration
  /\ InitClock
  /\ InitSkip
  /\ InitLoops
  /\ InitNowPlaying
  /\ InitEncoder

\* a started pipeline, the broadcaster that consumes it, a caller of
\* skip() and callers of get_playlist()
NextAB ==
  \/ ProducerLoad(FullLens) \/ P_RecvSkip
  \/ B_Start \/ E_Encode \/ E_Reset \/ BroadcastLoop
  \/ Skip \/ GetPlaylist

SpecAB == InitAB /\ [][NextAB]_vars

\* a started pipeline and its broadcaster, with an encoder thread that can
\* fail to encode or die, and a caller of stop()
NextEF ==
  \/ ProducerLoad(FullLens)
  \/ B_Start \/ B_Stop \/ E_Encode \/ E_EncodeFail \/ E_Shutdown \/ E_Panic
  \/ BroadcastLoop \/ BroadcastLoopEnd

SpecEF == InitAB /\ [][NextEF]_vars

\* concurrent playlist requests for one station
SpecGB == Init /\ [][GetHlsPlaylist]_vars

\* one curation, called through curate or with a streaming receiver
NextHC == HC_Curate \/ HC_CurateStream \/ CurateWithProgress \/ PR_Recv \/ PR_Drop

SpecHC == Init /\ [][NextHC]_vars

\* a call of the language model, for every response
InitJX ==
  /\ InitPipeline /\ InitCallers /\ InitBroadcaster /\ InitHistory
  /\ InitEmbedding
  /\ InitStation
  /\ InitCurator
  /\ content_text \in Responses(MaxBody)
  /\ json_text = Pending
  /\ InitDuration
  /\ InitClock
  /\ InitSkip
  /\ InitLoops
  /\ InitNowPlaying
  /\ InitEncoder

SpecJX == InitJX /\ [][CallClaude]_vars

\* a broadcaster of every configuration: start(), then get_playlist()
InitSD ==
  /\ InitPipeline /\ InitCallers /\ InitBroadcaster /\ InitHistory
  /\ InitEmbedding
  /\ InitStation
  /\ InitCurator
  /\ InitCallClaude
  /\ broadcaster_config \in Configs
  /\ actual_segment_duration = <<>>
  /\ playlist_header = <<>>
  /\ InitClock
  /\ InitSkip
  /\ InitLoops
  /\ InitNowPlaying
  /\ InitEncoder

\* one broadcaster, the callers of its start() and stop(), and the loop
\* tasks it spawns
NextBR == BR_Start \/ BR_Stop \/ BR_Loop

SpecBR == Init /\ [][NextBR]_vars

\* one call of curate_with_progress over a library and its embedding store
InitCU ==
  /\ InitPipeline /\ InitCallers /\ InitBroadcaster /\ InitHistory
  /\ InitEmbedding
  /\ InitStation
  /\ InitCurator
  /\ InitCallClaude
  /\ InitDuration
  /\ InitClock
  /\ InitSkip
  /\ InitLoops
  /\ InitNowPlaying
  /\ InitLibrary

NextCU ==
  CU_Curate \/ CU_SelectSeeds \/ CU_FindSimilar \/ CU_FillGaps \/ CU_FallbackFill

SpecCU == InitCU /\ [][NextCU]_vars

\* an active station and the concurrent callers of get_now_playing
SpecNP == Init /\ [][GetNowPlaying \/ NP_Tick]_vars

SpecSD == InitSD /\ [][SD_Start \/ SD_GetPlaylist]_vars

\* a started pipeline, its broadcaster and a caller of the pipeline's
\* stop(); the tasks and the encoder thread are scheduled fairly
NextST ==
  \/ ProducerLoad(FullLens) \/ P_RecvStop \/ StopSend \/ StopReturn
  \/ B_Start \/ E_Encode \/ E_Shutdown \/ BroadcastLoop \/ L_Shutdown

SpecST ==
  /\ InitAB /\ [][NextST]_vars
  /\ WF_vars(BroadcastLoop \/ L_Shutdown)
  /\ WF_vars(E_Encode \/ E_Shutdown)
  /\ WF_vars(ProducerLoad(FullLens) \/ P_RecvStop)

\* number of tracks queued before start() when the broadcast is long enough
\* to be throttled
LongQueued == 3

\* a configuration whose segments last a third of a second
ThirdConfig == BroadcasterConfig(1, 3, FrameSamples)

\* as InitAB with LongQueued tracks, for two configurations with
\* samples_per_segment samples per segment
InitRT ==
  /\ control_tx = TRUE
  /\ control_rx = <<>>
  /\ running = TRUE
  /\ state_track = NoState
  /\ track_queue = [i \in 1..LongQueued |-> i]
  /\ samples = <<>>
  /\ current_track = NoTrack
  /\ events = <<>>
  /\ ppc = "recv"
  /\ p_track = 0
  /\ p_samples = <<>>
  /\ qpc = "idle"
  /\ n_queued = LongQueued
  /\ n_skips = 0
  /\ spc = "idle"
  /\ InitBroadcaster
  /\ InitHistory
  /\ InitEmbedding
  /\ InitStation
  /\ InitCurator
  /\ InitCallClaude
  /\ broadcaster_config \in
       {c \in {ScaledConfig, ThirdConfig} :
          SamplesPerSegment(c) = samples_per_segment}
  /\ actual_segment_duration = <<>>
  /\ playlist_header = <<>>
  /\ InitClock
  /\ InitSkip
  /\ InitLoops
  /\ InitNowPlaying
  /\ InitEncoder

\* a started pipeline and its broadcaster, in real time
NextRT ==
  \/ ProducerLoad(FullLens)
  \/ B_Start \/ E_Encode \/ BroadcastLoop
  \/ Tick

SpecRT == InitRT /\ [][NextRT]_vars

\* calls of process_track, one after the other
NextPT ==
  \E t \in LibraryIds, encoded \in Encoded : ProcessTrack(t, encoded)

SpecPT == Init /\ [][NextPT]_vars

\* the databases the similarity queries can find
InitFS ==
  /\ InitPipeline /\ InitCallers /\ InitBroadcaster /\ InitHistory
  /\ InitEmbedding
  /\ InitStation
  /\ InitCurator
  /\ InitCallClaude
  /\ InitDuration
  /\ InitClock
  /\ InitSkip
  /\ InitLoops
  /\ InitNowPlaying
  /\ library_index \in [LibraryIds -> SUBSET Genres]
  /\ \E ids \in SUBSET LibraryIds :
       track_embeddings \in [ids -> 1..MaxEmbedding]
  /\ embedding_failures = [t \in LibraryIds |-> 0]
  /\ ae_last = NoCall

\* one similarity query, with at most one excluded track
NextFS ==
  /\ ae_last = NoCall
  /\ \E k \in 0..MaxSimilar, x \in {{}} \cup {{t} : t \in LibraryIds} :
       \/ \E t \in LibraryIds : FindSimilar(t, k, x)
       \/ \E seeds \in SUBSET LibraryIds : FindSimilarToSeeds(seeds, k, x)

SpecFS == InitFS /\ [][NextFS]_vars

\* a started pipeline, its broadcaster and a caller of skip() whose task is
\* scheduled fairly
NextSK ==
  \/ ProducerLoad(FullLens) \/ P_RecvSkip
  \/ B_Start \/ E_Encode \/ E_Reset \/ BroadcastLoop
  \/ Skip

SpecSK == InitAB /\ [][NextSK]_vars /\ WF_vars(Skip)

\* number of queue_track calls that overfill the control channel
ManyQueued == CONTROL_CAPACITY + 1

\* a started pipeline with an empty queue
InitQ ==
  /\ control_tx = TRUE
  /\ control_rx = <<>>
  /\ running = TRUE
  /\ state_track = NoState
  /\ track_queue = <<>>
  /\ samples = <<>>
  /\ current_track = NoTrack
  /\ events = <<>>
  /\ ppc = "recv"
  /\ p_track = 0
  /\ p_samples = <<>>
  /\ InitCallers
  /\ InitBroadcaster
  /\ InitHistory
  /\ InitEmbedding
  /\ InitStation
  /\ InitCurator
  /\ InitCallClaude
  /\ InitDuration
  /\ InitClock
  /\ InitSkip
  /\ InitLoops
  /\ InitNowPlaying
  /\ InitEncoder

\* a started pipeline, its producer, and a caller that queues ManyQueued
\* tracks one after the other
NextQ ==
  \/ QueueTrackCall(ManyQueued) \/ QueueTrackSend
  \/ ProducerLoad(FullLens) \/ P_RecvQueueTrack

SpecQ == InitQ /\ [][NextQ]_vars

\* the embedding control endpoints and the indexing tasks
NextEC ==
  \/ EC_StartCheck \/ EC_StartSet \/ EC_Pause \/ EC_Resume \/ EC_Stop
  \/ Worker

SpecEC == Init /\ [][NextEC]_vars

\* the embedding control endpoints and the indexing tasks, each task
\* scheduled fairly
SpecEW ==
  /\ Init /\ [][NextEC]_vars
  /\ \A w \in 1..MaxWorkers :
       WF_vars(W_QueryNone(w) \/ W_QuerySome(w) \/ W_Poll(w) \/ W_Process(w)
               \/ W_Finish(w))

(***************************************************************************)
(* Properties                                                              *)
(***************************************************************************)
\* C1: in every reachable state of a broadcaster the retained segments carry
\* consecutive, strictly increasing sequence numbers, media_sequence is the
\* sequence of the oldest retained segment when the window is non-empty, and
\* the next sequence to be assigned is media_sequence + the number of
\* retained segments.
C1_SequenceInvariant ==
  /\ \A i \in 1..(Len(segments) - 1) :
       segments[i + 1].sequence = segments[i].sequence + 1
  /\ segments # <<>> => media_sequence = segments[1].sequence
  /\ sequence = media_sequence + Len(segments)

\* a skip() that sent its Reset has cleared a non-empty window, and two
\* segments have been appended since
C1_Witness ==
  /\ clear_reset > 0
  /\ media_sequence > 0
  /\ Len(segments) >= 2

\* C2: the next get_playlist() made after a skip() once a post-skip segment
\* is in the window returns exactly one #EXT-X-DISCONTINUITY line, before
\* the first #EXTINF line, and later renderings contain none until the next
\* skip(); also when playlist requests arrive while the window is empty.
C2_DiscontinuityOnce ==
  LET d == {i \in 1..Len(Playlist) : Playlist[i].tag = "#EXT-X-DISCONTINUITY"}
      e == {i \in 1..Len(Playlist) : Playlist[i].tag = "#EXTINF"}
  IN /\ (disc_due /\ segments # <<>>) =>
          /\ Cardinality(d) = 1
          /\ \A i \in d : \A j \in e : i < j
     /\ ~disc_due => d = {}

\* C3: the samples read_samples returned so far are the decoded samples of
\* the loaded tracks in queue order, each track complete or (after a skip)
\* cut to a prefix; no sample is returned twice or out of order.
C3_SamplesInOrder ==
  LET \* the decoded samples of the tracks ld, one track after the other
      RECURSIVE Flat(_)
      Flat(ld) ==
        IF ld = <<>> THEN <<>>
        ELSE Decoded(Head(ld)[1], Head(ld)[2]) \o Flat(Tail(ld))
  IN
  /\ \A i \in 1..(Len(loaded) - 1) : loaded[i][1] < loaded[i + 1][1]
  /\ \A k \in 1..Len(out) :
       \E i \in 1..Len(loaded) :
         loaded[i][1] = out[k][1] /\ out[k][2] \in 1..loaded[i][2]
  /\ out # <<>> => out[1][2] = 1
  /\ \A k \in 1..(Len(out) - 1) :
       \/ out[k + 1][1] = out[k][1] /\ out[k + 1][2] = out[k][2] + 1
       \/ out[k + 1][1] > out[k][1] /\ out[k + 1][2] = 1
  /\ n_skips = 0 =>
       /\ Len(out) <= Len(Flat(loaded))
       /\ out = SubSeq(Flat(loaded), 1, Len(out))

\* read_samples has returned samples of two tracks, the first of them cut
\* short by a skip
C3_Witness ==
  \E k \in 1..(Len(out) - 1) :
    /\ out[k + 1][1] > out[k][1]
    /\ \E i \in 1..Len(loaded) :
         loaded[i][1] = out[k][1] /\ out[k][2] < loaded[i][2]

\* C4: TrackStarted(X) is sent before any read_samples call returns a sample
\* of track X.
C4_StartedBeforeSamples ==
  \A k \in 1..Len(out) :
    \E j \in 1..Len(events) : events[j] = Event("TrackStarted", out[k][1])

\* C5: no segment in the window after a skip()'s clear was produced by an
\* encoder older than the one that skip's Reset created.
C5_FreshEncoder ==
  \A i \in 1..Len(segments) : segments[i].data.instance > clear_reset

\* C6: start, pause, resume and stop are accepted only along Idle->Running,
\* Running->Paused, Paused->Running and {Running, Paused}->Stopping; every
\* other command is rejected with Conflict.
C6_OnlyLegalTransitions ==
  LET legal == {<<"start", "Idle">>, <<"pause", "Running">>,
                <<"resume", "Paused">>, <<"stop", "Running">>,
                <<"stop", "Paused">>}
  IN last.cmd # "none" =>
       IF <<last.cmd, last.from>> \in legal
         THEN last.result = "Ok" /\ last.applied
         ELSE last.result = "Conflict" /\ ~last.applied

\* C7: the producer's handling of Skip while a track is current discards the
\* buffered samples, empties the current-track slot and sends TrackEnded
\* with the skipped track's id.
C7_SkipEndsTrack ==
  [][(P_RecvSkip /\ current_track # NoTrack) =>
       /\ samples' = <<>>
       /\ current_track' = NoTrack
       /\ events' = Append(events, Event("TrackEnded", current_track.track_id))]_vars

\* C8: the PCM buffer never holds more than max_samples samples.
C8_BufferBounded == Len(samples) <= max_samples

\* C9: a queue_track call never waits for the producer: whenever a call is
\* under way it can complete at once.
C9_NeverBlocks ==
  qpc = "sending" =>
    \/ ~control_tx
    \/ RxClosed
    \/ Len(control_rx) < CONTROL_CAPACITY

\* C10: once stop() has returned (having sent Stopped) no TrackStarted is
\* sent and no samples are appended to the PCM buffer.
C10_StopTerminal ==
  [][spc = "done" =>
       /\ Len(samples') <= Len(samples)
       /\ events' # events => events'[Len(events')].type # "TrackStarted"]_vars

\* C11: the death of the encoder thread, a read_samples call that returns
\* no samples and an empty encoder output are not fatal for the broadcast
\* loop: while the broadcaster has not been stopped and the pipeline has
\* not sent Stopped, the loop does not end.
C11_LoopSurvives ==
  (b_running /\ \A j \in 1..Len(events) : events[j].type # "Stopped")
    => lpc \notin {"shutdown", "done"}

\* C12: for a station at most one (AudioPipeline, AudioBroadcaster) pair is
\* created and running at a time, also when playlist requests for a station
\* without a broadcaster arrive concurrently.
C12_OnePairPerStation ==
  Cardinality({p \in 1..MaxPairs : pairs[p].started /\ pairs[p].running}) <= 1

\* C13: progress delivery never blocks curation: the call is never left
\* waiting in a send on a full channel whose receiver exists and is never
\* read, whatever the number of seeds that need embeddings
C13_NeverBlocks ==
  ~(/\ progress_rx = "held"
    /\ Len(progress) = progress_cap
    /\ cpc \in {"Started", "CheckingEmbeddings", "SelectingSeeds",
                "SeedsSelected", "GeneratingEmbeddings", "FillingGaps",
                "fallback", "FallbackSeedsSelected", "Completed"})

\* C14: the list curate / curate_with_progress returns has at most limit
\* track ids, on the hybrid path and on the fallback path
C14_AtMostLimit ==
  cpc = "done" => Len(playlist) <= c_limit

\* C15: on the hybrid path, when find_similar_to_seeds returns all the
\* limit - |seeds| tracks asked for, the list has length limit, begins with
\* a seed and seed i sits at index floor(i * limit / |seeds|)
C15_SeedPositions ==
  [][(/\ cpc = "find_similar"
      /\ cpc' = "Completed"
      /\ Len(c_seeds) <= c_limit
      /\ Len(playlist') - Len(c_seeds) = c_limit - Len(c_seeds))
     => /\ Len(playlist') = c_limit
        /\ playlist'[1] = c_seeds[1].track_id
        /\ \A i \in 0..(Len(c_seeds) - 1) :
             LET index == (i * c_limit) \div Len(c_seeds)
             IN /\ index + 1 \in 1..Len(playlist')
                /\ playlist'[index + 1] = c_seeds[i + 1].track_id]_vars

\* C16: extraction is idempotent: when extract_first_json_object returns
\* Some(o), it returns Some(o) for o as well, and o begins with "{", ends
\* with "}" and its braces outside of strings balance
C16_ExtractIdempotent ==
  json_text.state = "some" =>
    /\ extract_first_json_object(json_text.value) = json_text
    /\ find_json_object(json_text.value) = json_text

\* C17: a rendered playlist carries #EXT-X-TARGETDURATION equal to the
\* ceiling of the frame-aligned segment duration, the duration written in
\* its #EXTINF lines, so that no #EXTINF exceeds the target duration
C17_TargetDuration ==
  playlist_header # <<>> =>
    /\ playlist_header[1].arg =
         Ceil(actual_segment_duration[1], actual_segment_duration[2])
    /\ playlist_header[2].arg <= 1000 * playlist_header[1].arg

\* C18: get_segment(s) returns a segment exactly when
\* media_sequence <= s < next_sequence, and then the segment numbered s; a
\* sequence number below media_sequence is never retrievable again
C18_SegmentRetrievable ==
  /\ [](\A s \in 0..(sequence + 1) :
          /\ (GetSegment(s) # Absent) <=> (media_sequence <= s /\ s < sequence)
          /\ GetSegment(s) # Absent => GetSegment(s).sequence = s)
  /\ [][\A s \in 0..sequence :
          s < media_sequence => (GetSegment(s) = Absent)']_vars

\* a skip() has cleared segments and eviction or a second clear has moved
\* the window on: the segment numbered media_sequence is retrievable, the
\* one before it is not
C18_Witness ==
  /\ n_skips > 0
  /\ media_sequence > 0
  /\ GetSegment(media_sequence) # Absent
  /\ GetSegment(media_sequence - 1) = Absent

\* C19: get_playlist lists exactly the segments of the window, one
\* #EXTINF / URI pair for each, in increasing sequence order, and its
\* #EXT-X-MEDIA-SEQUENCE is the sequence of the first listed segment
C19_PlaylistIsWindow ==
  LET uri == {i \in 1..Len(Playlist) : Playlist[i].tag = "segment"}
      inf == {i \in 1..Len(Playlist) : Playlist[i].tag = "#EXTINF"}
      nth(k) == CHOOSE i \in uri : Cardinality({j \in uri : j <= i}) = k
      ms == {i \in 1..Len(Playlist) : Playlist[i].tag = "#EXT-X-MEDIA-SEQUENCE"}
  IN /\ Cardinality(uri) = Len(segments)
     /\ Cardinality(inf) = Len(segments)
     /\ \A i \in uri : i - 1 \in inf
     /\ \A k \in 1..Len(segments) : Playlist[nth(k)].arg = segments[k].sequence
     /\ \A k \in 1..(Len(segments) - 1) :
          Playlist[nth(k)].arg < Playlist[nth(k + 1)].arg
     /\ Cardinality(ms) = 1
     /\ segments # <<>> =>
          \A i \in ms : Playlist[i].arg = Playlist[nth(1)].arg

\* a playlist rendered with a discontinuity line, two segments and a
\* media sequence that is not 0
C19_Witness ==
  /\ discontinuity
  /\ Len(segments) = 2
  /\ segments[1].sequence > 0
  /\ Len(Playlist) = 9

\* C20: the window never holds more than playlist_length + 2 segments; an
\* append that would exceed that drops the oldest segments in the same
\* step, and media_sequence grows by one for each segment dropped
C20_WindowBounded ==
  /\ [](Len(segments) <= PlaylistLength + 2)
  /\ [][lpc = "append" /\ lpc' # "append" =>
          /\ Len(segments') = Min(Len(segments) + 1, PlaylistLength + 2)
          /\ media_sequence' - media_sequence
               = Len(segments) + 1 - Len(segments')
          /\ \A i \in 1..(Len(segments') - 1) :
               segments'[i] = segments[i + Len(segments) + 1 - Len(segments')]]_vars

\* without any skip, an append to a full window has dropped the oldest
\* segment
C20_Witness ==
  /\ n_skips = 0
  /\ media_sequence > 0
  /\ Len(segments) = PlaylistLength + 2

\* C21: pause is accepted only when the control state is Running and resume
\* only when it is Paused; in every other state the command returns
\* Conflict and leaves the control state unchanged
C21_PauseResumeGuarded ==
  /\ [](/\ last.cmd = "pause" =>
             IF last.from = "Running" THEN last.result = "Ok" /\ last.applied
             ELSE last.result = "Conflict" /\ ~last.applied
        /\ last.cmd = "resume" =>
             IF last.from = "Paused" THEN last.result = "Ok" /\ last.applied
             ELSE last.result = "Conflict" /\ ~last.applied)
  /\ [][/\ EC_Pause =>
             /\ last'.cmd = "pause" /\ last'.from = embedding_control
             /\ embedding_control' =
                  IF embedding_control = "Running" THEN "Paused"
                  ELSE embedding_control
        /\ EC_Resume =>
             /\ last'.cmd = "resume" /\ last'.from = embedding_control
             /\ embedding_control' =
                  IF embedding_control = "Paused" THEN "Running"
                  ELSE embedding_control]_vars

\* a pause before any start: the state is still Idle, no indexing task
\* exists and the command was answered with Conflict
C21_Witness ==
  /\ last = Reply("pause", "Idle", "Conflict", FALSE)
  /\ embedding_control = "Idle"
  /\ \A w \in 1..MaxWorkers : workers[w] = NoWorker

\* C22: when fetching or decoding a queued track fails, the producer has
\* removed only that track from the queue, sends an Error event, leaves the
\* buffer and the current-track slot unchanged, keeps running and goes on
\* with its loop, where the next queued track is the one it loads
C22_LoadFailureContinues ==
  /\ [][(ppc = "needs" /\ ppc' = "pop") =>
          /\ track_queue # <<>>
          /\ p_track' = Head(track_queue)]_vars
  /\ [][(ppc = "pop" /\ ppc' = "fetch") =>
          /\ track_queue # <<>>
          /\ Head(track_queue) = p_track
          /\ track_queue' = Tail(track_queue)]_vars
  /\ [][(ppc = "fetch" /\ ppc' \notin {"fetch", "store"}) =>
          /\ events' = Append(events, Event("Error", p_track))
          /\ track_queue' = track_queue
          /\ samples' = samples
          /\ current_track' = current_track
          /\ running' = running
          /\ ppc' = "recv"
          /\ current_track = NoTrack
          /\ needs_audio]_vars

\* a load has failed and the producer has started a later track
C22_Witness ==
  \E j \in 1..Len(events) : \E k \in (j + 1)..Len(events) :
    /\ events[j].type = "Error"
    /\ events[k].type = "TrackStarted"
    /\ events[k].track_id > events[j].track_id

\* C23: once the pipeline has sent Stopped, the broadcast loop of its
\* broadcaster eventually ends, and after that no segment is appended
C23_StoppedTerminates ==
  /\ []((/\ lpc # "unstarted"
         /\ \E j \in 1..Len(events) : events[j].type = "Stopped")
        => <>(lpc = "done"))
  /\ [][lpc = "done" => segments' = segments]_vars

\* C24: for every track whose samples have all been returned by
\* read_samples there is exactly one TrackEnded event with its id, no
\* TrackEnded is sent for a track before its last sample was returned, and
\* there are as many TrackEnded events as tracks drained to completion
C24_TrackEndedOnce ==
  LET returned(i) == Cardinality({k \in 1..Len(out) : out[k][1] = loaded[i][1]})
      ended(i) ==
        Cardinality({j \in 1..Len(events) :
                       events[j] = Event("TrackEnded", loaded[i][1])})
      all_ended == {j \in 1..Len(events) : events[j].type = "TrackEnded"}
  IN /\ \A i \in 1..Len(loaded) :
          /\ (loaded[i][2] > 0 /\ returned(i) = loaded[i][2]) => ended(i) = 1
          /\ ended(i) <= 1
          /\ ended(i) = 1 => returned(i) = loaded[i][2]
     /\ \A j \in all_ended :
          \E i \in 1..Len(loaded) : loaded[i][1] = events[j].track_id
     /\ Cardinality(all_ended)
          = Cardinality({i \in 1..Len(loaded) :
                           returned(i) = loaded[i][2] /\ ended(i) = 1})

\* two tracks with samples have been drained to completion
C24_Witness ==
  \E i, j \in 1..Len(loaded) :
    /\ i < j
    /\ loaded[i][2] > 0 /\ loaded[j][2] > 0
    /\ Event("TrackEnded", loaded[i][1]) \in {events[k] : k \in 1..Len(events)}
    /\ Event("TrackEnded", loaded[j][1]) \in {events[k] : k \in 1..Len(events)}
    /\ Len(out) >= loaded[i][2] + loaded[j][2]

\* C25: the broadcast loop appends the segment with sequence n only when at
\* least (n - max_lead) x actual_segment_duration of real time has elapsed
\* since the loop started, with max_lead = 3
C25_NeverTooFarAhead ==
  [][sequence' # sequence =>
       elapsed * broadcaster_config.sample_rate * OUTPUT_CHANNELS
         >= (sequence - max_lead_segments)
              * SamplesPerSegment(broadcaster_config) * 1000 * TicksPerMs]_vars

\* C26: the result of find_similar_to_seeds(S, k, E) has at most k entries,
\* holds no member of S and no member of E, and each of its tracks has at
\* least one genre of the union of the genres of the tracks of S
C26_SeedsResult ==
  ae_last.op = "find_similar_to_seeds" =>
    LET R == {ae_last.result[i] : i \in 1..Len(ae_last.result)}
    IN /\ Len(ae_last.result) <= ae_last.limit
       /\ R \cap (ae_last.seed_ids \cup ae_last.exclude_ids) = {}
       /\ \A r \in R :
            library_index[r]
              \cap UNION {library_index[t] : t \in ae_last.seed_ids} # {}

\* a query that returned one track because of its limit: another track with
\* an embedding and a genre of the seed was left out
C26_Witness ==
  /\ ae_last.op = "find_similar_to_seeds"
  /\ ae_last.limit = 1
  /\ Len(ae_last.result) = 1
  /\ \E t \in DOMAIN track_embeddings :
       /\ t \notin ae_last.seed_ids \cup ae_last.exclude_ids
       /\ t # ae_last.result[1]
       /\ library_index[t]
            \cap UNION {library_index[x] : x \in ae_last.seed_ids} # {}

\* C27: the result of a successful find_similar(t, k, E) has at most k
\* entries, holds neither t nor a member of E, and each of its tracks shares
\* at least one genre with t; when t has no genre the result is empty
C27_SimilarResult ==
  (ae_last.op = "find_similar" /\ ae_last.ok) =>
    LET R == {ae_last.result[i] : i \in 1..Len(ae_last.result)}
    IN /\ Len(ae_last.result) <= ae_last.limit
       /\ ae_last.track_id \notin R
       /\ R \cap ae_last.exclude_ids = {}
       /\ \A r \in R :
            library_index[r] \cap library_index[ae_last.track_id] # {}

\* C29 as stated: a call of process_track for a track that has an embedding
\* record encodes nothing, leaves the store unchanged and succeeds, and a
\* call that follows a call for the same track leaves the store as it was
C29_Idempotent ==
  [][\A t \in LibraryIds, e \in Encoded :
       ProcessTrack(t, e) =>
         /\ Exists(t) =>
              /\ ~ ae_last'.encoded /\ ae_last'.result = "Ok"
              /\ UNCHANGED <<track_embeddings, embedding_failures>>
         /\ (ae_last.op = "process_track" /\ ae_last.track_id = t) =>
              UNCHANGED <<track_embeddings, embedding_failures>>]_vars

\* C29, amended: a call of process_track for a track that has an embedding
\* record encodes nothing, leaves the store unchanged and succeeds, and a
\* call that follows a successful call for the same track leaves the store
\* as it was
C29_IdempotentOnceStored ==
  [][\A t \in LibraryIds, e \in Encoded :
       ProcessTrack(t, e) =>
         /\ Exists(t) =>
              /\ ~ ae_last'.encoded /\ ae_last'.result = "Ok"
              /\ UNCHANGED <<track_embeddings, embedding_failures>>
         /\ (/\ ae_last.op = "process_track" /\ ae_last.track_id = t
             /\ ae_last.result = "Ok") =>
              UNCHANGED <<track_embeddings, embedding_failures>>]_vars

\* a second call for a track whose first call stored an embedding, after a
\* failed call had left a row in embedding_failures
C29_Witness ==
  /\ ae_last.op = "process_track"
  /\ ae_last.result = "Ok" /\ ~ ae_last.encoded
  /\ ae_last.track_id \in DOMAIN track_embeddings
  /\ embedding_failures[ae_last.track_id] > 0

\* C28: with s seeds and the F = N - s fill tracks asked for returned by
\* find_similar_to_seeds, the hybrid playlist is each seed in selection
\* order followed by floor(F / s) fill tracks, one more after each of the
\* first F mod s seeds; the gaps sum to F, differ by at most one, and the
\* fill tracks keep the order in which they were returned
C28_EvenGaps ==
  [][(/\ cpc = "find_similar"
      /\ cpc' = "Completed"
      /\ Len(c_seeds) <= c_limit
      /\ Len(playlist') = c_limit)
     => LET s == Len(c_seeds)
            F == c_limit - s
            gap(k) == (F \div s) + (IF k <= F % s THEN 1 ELSE 0)
            \* the index of seed k: after k - 1 seeds and their gaps
            pos(k) == (k - 1) * ((F \div s) + 1) + Min(k - 1, F % s) + 1
        IN /\ \A k \in 1..s :
                /\ playlist'[pos(k)] = c_seeds[k].track_id
                /\ \A j \in 1..gap(k) :
                     playlist'[pos(k) + j] = SimilarTracks(F)[pos(k) - k + j]
                /\ pos(k) + gap(k) = IF k < s THEN pos(k + 1) - 1 ELSE c_limit
           /\ \A k, l \in 1..s : gap(k) - gap(l) \in {-1, 0, 1}]_vars

\* two seeds and three fill tracks: a gap of two, then a gap of one
C28_Witness ==
  /\ cpc = "Completed"
  /\ c_limit = 5
  /\ Len(c_seeds) = 2
  /\ playlist = <<c_seeds[1].track_id, SimilarTracks(3)[1], SimilarTracks(3)[2],
                  c_seeds[2].track_id, SimilarTracks(3)[3]>>

\* C30: a skip() whose Skip command the pipeline accepted returns, and
\* returns Ok: from its wait it leaves with a segment in the window, or
\* with an empty window when the timeout has passed
C30_SkipReturns ==
  /\ [](kpc \in {"clear", "wait"} => <>(kpc = "idle" /\ skip_result = "Ok"))
  /\ [][(kpc = "wait" /\ kpc' # "wait")
          => /\ kpc' = "idle" /\ skip_result' = "Ok"
             /\ (S_WaitDone /\ segments # <<>>) \/ S_WaitTimeout]_vars

\* a skip() has returned Ok with a segment made after its clear in the window
C30_Witness ==
  /\ skip_result = "Ok"
  /\ kpc = "idle"
  /\ n_skips > 0
  /\ segments # <<>>

\* C31: state.discontinuity is raised only by skip() when it clears the
\* window, every get_playlist() leaves it cleared, and a rendering has at
\* most one #EXT-X-DISCONTINUITY line, before the first segment, and none
\* unless the flag is raised, that is unless a skip() cleared the window
\* since the previous rendering
C31_DiscontinuityConsumed ==
  /\ [](LET d == {i \in 1..Len(Playlist) :
                    Playlist[i].tag = "#EXT-X-DISCONTINUITY"}
            e == {i \in 1..Len(Playlist) : Playlist[i].tag = "#EXTINF"}
        IN /\ Cardinality(d) <= 1
           /\ \A i \in d : \A j \in e : i < j
           /\ d # {} => discontinuity)
  /\ [][(discontinuity' /\ ~discontinuity) => S_Clear]_vars
  /\ [][GetPlaylist => ~discontinuity']_vars

\* a window of two segments after a skip(): the rendering has one
\* #EXT-X-DISCONTINUITY line
C31_Witness ==
  /\ discontinuity
  /\ Len(segments) >= 2
  /\ Cardinality({i \in 1..Len(Playlist) :
                    Playlist[i].tag = "#EXT-X-DISCONTINUITY"}) = 1

\* C32: no sample that read_samples had returned to the broadcast loop
\* before skip() cleared the window is part of a segment of the window
\* after that clear
C32_NoPreSkipSamples ==
  \A i \in 1..Len(segments) :
    \A k \in 1..Len(segments[i].data.pcm) :
      \A n \in 1..clear_out : out[n] # segments[i].data.pcm[k]

\* C33: at most one indexing task is alive at any time
C33_OneWorker ==
  Cardinality({w \in 1..MaxWorkers : workers[w].pc # "none"}) <= 1

\* C34: while the control state is Stopping no indexing task begins a
\* track, a Stopping state is eventually followed by Idle, and an indexing
\* task that ends leaves the state Idle
C34_StopReachesIdle ==
  /\ [](embedding_control = "Stopping" => <>(embedding_control = "Idle"))
  /\ [][embedding_control = "Stopping" =>
          \A w \in 1..MaxWorkers :
            workers'[w].pc = "process" => workers[w].pc = "process"]_vars
  /\ [][\A w \in 1..MaxWorkers :
          (workers[w].pc \in {"poll", "query"} /\ workers'[w].pc = "none")
            => embedding_control' = "Idle"]_vars

\* C35: while the control state is Paused no indexing task begins a track,
\* and once a resume is accepted, and no other command since, no task gives
\* up a track unprocessed: the batch goes on with its remaining tracks
C35_PauseKeepsTracks ==
  /\ [][embedding_control = "Paused" =>
          \A w \in 1..MaxWorkers :
            workers'[w].pc = "process" => workers[w].pc = "process"]_vars
  /\ [][(last.cmd = "resume" /\ last.applied) =>
          \A w \in 1..MaxWorkers :
            (workers[w].pc = "poll" /\ workers'[w].pc = "poll")
              => workers'[w].left = workers[w].left]_vars

\* the tracks placed in the queue: in track_queue or in a QueueTrack
\* command the producer has not yet received
Placed ==
  {track_queue[i] : i \in 1..Len(track_queue)}
    \cup {control_rx[i].track_id :
            i \in {j \in 1..Len(control_rx) : control_rx[j].cmd = "QueueTrack"}}

\* the track ids of the TrackStarted and Error events, in order of emission
Outcomes ==
  SelectSeq(events, LAMBDA e : e.type \in {"TrackStarted", "Error"})

\* C36: in a running pipeline that is not stopped and whose consumer keeps
\* draining, every track placed in the queue, before or after start(), is
\* eventually taken by the producer and yields a TrackStarted or an Error
\* event, and these events come in the order the tracks were queued (track
\* ids are given in queueing order).
C36_EveryTrackLoaded ==
  /\ \A t \in 1..MaxQueued :
       [](t \in Placed /\ running /\ spc = "idle"
            => <>(spc # "idle"
                    \/ \E i \in 1..Len(Outcomes) : Outcomes[i].track_id = t))
  /\ [](\A i, j \in 1..Len(Outcomes) :
          i < j => Outcomes[i].track_id < Outcomes[j].track_id)

C36_Witness ==
  /\ running /\ spc = "idle"
  /\ Len(Outcomes) = MaxQueued
  /\ \E i \in 1..Len(Outcomes) : Outcomes[i].type = "Error"
  /\ \E i \in 1..Len(Outcomes) : Outcomes[i].type = "TrackStarted"

\* C37: in every state under the buffer lock, an occupied current-track slot
\* has 0 <= consumed_samples <= total_samples and the buffer holds exactly
\* total_samples - consumed_samples samples, all of that track; with an
\* empty slot the buffer is empty.  So the buffer never holds samples of two
\* tracks.
C37_BufferIsCurrentTrack ==
  /\ current_track # NoTrack =>
       /\ current_track.consumed_samples >= 0
       /\ current_track.consumed_samples <= current_track.total_samples
       /\ Len(samples)
            = current_track.total_samples - current_track.consumed_samples
       /\ \A i \in 1..Len(samples) : samples[i][1] = current_track.track_id
  /\ current_track = NoTrack => samples = <<>>
  /\ \A i, j \in 1..Len(samples) : samples[i][1] = samples[j][1]

C37_Witness ==
  /\ current_track # NoTrack
  /\ current_track.track_id > 1
  /\ current_track.consumed_samples > 0
  /\ samples # <<>>

\* C38: is_running() is true exactly while a broadcast loop task is alive:
\* once the loop has exited (pipeline Stopped, encoder thread lost, or
\* stop()) and no loop is alive, is_running() is false, so that a later
\* start() spawns a new loop; and two broadcast loops of one broadcaster
\* are never alive together.
C38_RunningWhileLoopAlive ==
  /\ (AliveLoops = {} /\ \E i \in 1..MaxLoops : loop_tasks[i].pc = "done")
       => ~b_running
  /\ Cardinality(AliveLoops) <= 1

\* C39: the list curate / curate_with_progress returns contains no track id
\* more than once: the seeds are pairwise distinct and no fill track equals
\* a seed or another fill track.
C39_NoDuplicateTrack ==
  cpc = "done" =>
    \A i, j \in 1..Len(playlist) : i < j => playlist[i] # playlist[j]

\* C40: when a station's current track has reached its duration, the
\* concurrent get_now_playing calls advance the station by exactly one
\* track in total: the end of one track causes one play_next_track and one
\* playlist_history row, not one per caller.
C40_AdvanceOncePerTrack ==
  \A i, j \in 1..Len(playlist_history) :
    (i < j /\ playlist_history[i].ended # 0)
      => playlist_history[i].ended # playlist_history[j].ended
====
